---------------------------- MODULE Spec2Model ----------------------------
(***************************************************************************)
(* Verification model of the iOBC peripheral core (qemu-iobc):             *)
(*   - the AT91 Advanced Interrupt Controller     (at91-aic.c)             *)
(*   - the AT91 USART with its PDC channel        (at91-usart.c, at91-pdc.h)*)
(*   - the IOX transfer server                    (ioxfer-server.c/.h)     *)
(* Every peripheral is a group of variables with its own initial state and *)
(* next-state relation; a specification SpecXxx runs one peripheral and    *)
(* holds the other groups at their construction value.                     *)
(*                                                                         *)
(* Register bit masks over interrupt lines are modelled as sets of line    *)
(* numbers (bit i set  <=>  i in the set); status registers as sets of     *)
(* flag names.  Other registers keep their integer value.                  *)
(***************************************************************************)
EXTENDS Integers, Sequences, FiniteSets, TLC

(***************************************************************************)
(* Bounds of the model.                                                    *)
(***************************************************************************)
\* deepest in-service stack the AIC specification explores
MaxStack == 1
\* greatest count firmware programs into RCR and RNCR
MaxCount == 2
\* greatest count firmware programs into TCR and TNCR
MaxTxCount == 1
\* longest payload of an injected DATA_IN frame
MaxPayload == 2
\* bytes the client injects in all
MaxBytes == 3
\* new transmissions the USART specification takes
MaxTx == 2
\* frames the clients write to the socket in all
MaxFrames == 2
\* connections that arrive at the listener of an IOX server in all
MaxConns == 3
\* longest data a multiframe transmission is asked to send
MaxData == 520
\* new transmissions the SPI takes
MaxSpiTx == 2
\* bytes firmware writes to the TWI's THR within one burst
MaxThr == 3
\* new transmissions the TWI takes
MaxTwiTx == 6
\* bytes the client of the TWI injects in all
MaxTwiBytes == 3
\* register writes to the PMC in all
MaxPmcWrites == 4

\* the PIT is ticked while PICNT is below
MaxPicnt == 2

\* characters from the host waiting at the DBGU's backend
MaxHost == 2

\* values of a TC counter followed upwards from 0
MaxCv == 3

VARIABLES
    \* ---- AicState (at91-aic.h) ----
    aic_reg_smr,        \* [line -> source mode register value]
    aic_reg_svr,        \* [line -> source vector]
    aic_reg_ipr,        \* pending lines
    aic_reg_imr,        \* enabled lines
    aic_reg_cisr,       \* core interrupt status: subset of {"NIRQ", "NFIQ"}
    aic_reg_spu,        \* spurious vector
    aic_reg_dcr,        \* debug control: subset of {"PROT", "GMSK"}
    aic_reg_ffsr,       \* fast-forced lines
    aic_irq_stack,      \* in-service stack, entries irq_stack[0..irq_stack_pos]
    aic_line_state,     \* input lines currently high
    aic_irq,            \* level of the nIRQ output line (qemu_irq irq)
    aic_fiq,            \* level of the nFIQ output line (qemu_irq fiq)
    aic_abort,          \* the emulator has aborted in the AIC
    aic_acked,          \* history: an IVR read has acknowledged an interrupt and no
                        \* EOICR write (or device reset) has happened since
    aic_op,             \* the access that ran last: "read_IVR", "write_IVR", "write_EOICR",
                        \* "write_ISCR", "read_ISR", "reset", the access that aborted,
                        \* or "other"
    aic_ret,            \* the value the last access returned when it was an IVR
                        \* or ISR read, else 0
    \* ---- UsartState (at91-usart.h) with its At91Pdc (at91-pdc.h) ----
    usart,              \* record: rcvbuf, csr, rhr, imr, irq, rx_enabled, tx_enabled,
                        \* rx_dma_enabled, rcr, rncr, tcr, tncr, ptsr
    \* ---- IoXferServer (ioxfer-server.h) ----
    srv_seq,            \* seq of the last new transmission
    srv_client,         \* client: the attached connection, or NULL
    srv_listening,      \* the listener has server_accept as its client function
    srv_buffer,         \* buffer[]: the bytes of the frame being assembled
    srv_buffer_used,    \* buffer_used
    \* ---- the client end of the socket, and the frame handler's record ----
    iox_frames,         \* frames the attached client has written to the socket
    iox_written,        \* frames written by all clients so far
    iox_stream,         \* bytes written by the client that are still in flight
    iox_sock,           \* bytes that arrived and client_receive has not read yet
    iox_dispatched,     \* frames client_receive has passed to the handler
    iox_conns,          \* connections that have arrived at the listener; they are
                        \* numbered in arrival order
    iox_closed,         \* connections the server side has closed
    iox_cut,            \* history: a client went away in the middle of a frame
    \* ---- the USART's use of its server ----
    iox_req,            \* the inbound frame the last step handled: <<frame>>, else <<>>
    iox_sent,           \* frames the last step wrote to the socket
    \* ---- environment and history ----
    cli_next,           \* the client numbers the bytes it injects: the next one
    pdc_rx_armed,       \* history of a receive transfer armed with RCR = N, RNCR = 0:
                        \* <<bytes of the N still to inject, more than N injected>>,
                        \* or <<>> when none is armed or firmware touched the receiver
    us_stored,          \* the stores to guest memory of the step that ran last,
                        \* <<address, byte>> in the order they were made
    us_op,              \* the access that ran last: "read_RHR", the register a PDC
                        \* write stored to ("RCR", "RNCR", "TCR", "TNCR", "RPR",
                        \* "RNPR"), or "other"
    us_ret,             \* the value the last access returned when it was an RHR
                        \* read, the value written when it was a PDC write, else 0
    \* ---- a call of iox_send_data_multiframe ----
    mf_call,            \* <<[seq, cat, id, data]>>: the arguments of the call, or <<>>
    mf_sent,            \* the frames the call wrote to the socket
    \* ---- SpiState (at91-spi.h) with its IoXferServer ----
    spi,                \* record: see the SPI section
    spi_sent,           \* frames the last step wrote to the SPI's socket
    spi_op,             \* the step that ran last: "read_RDR", "write_TDR",
                        \* "receive" (a DATA_IN frame from the client) or "other"
    spi_ret,            \* the value the last step returned when it was an RDR
                        \* read, else 0
    \* ---- TwiState (at91-twi.h) with its IoXferServer ----
    twi,                \* record: see the TWI section
    twi_sent,           \* frames the last step wrote to the TWI's socket
    twi_op,             \* the step that ran last: "read_RHR", "write_THR",
                        \* "expiry" (of the character-transmit timer), "reset",
                        \* the PDC register written ("TCR", "TNCR", "PTCR")
                        \* or "other"
    twi_ret,            \* the value the last step returned when it was an RHR
                        \* read, else 0
    twi_thr,            \* history: the values written to THR since the timer
                        \* expired last
    twi_next,           \* the client numbers the bytes it injects: the next one
    \* ---- PmcState (at91-pmc.h) ----
    pmc,                \* record: see the PMC section
    pmc_called,         \* the last step invoked the mclk callback
    pmc_delivered,      \* history: the frequency last passed to the callback,
                        \* 0 when it has not been called
    pmc_since,          \* history: the same, but forgotten (0) at a device reset
    pmc_op,             \* the step that ran last: <<"MCKR", value>>, <<"PLLAR">>,
                        \* <<"PLLBR">>, <<"reset">> or <<"other">>
    pmc_writes,         \* register writes so far
    \* ---- a half-duplex At91Pdc (at91-pdc.h) ----
    hdpdc,              \* record: see the half-duplex PDC section
    hd_op,              \* the write that ran last
    hd_action,          \* the action the last write returned
    \* ---- PioState (at91-pio.h) ----
    pio,                \* record: see the PIO section
    pio_op,             \* the write that ran last
    pio_sent,           \* pin states the last step sent
    \* ---- PitState (at91-pit.h) ----
    pit,                \* record: see the PIT section
    pit_op,             \* the step that ran last
    pit_ret,            \* the value the last read returned
    pit_elapsed,        \* history: master-clock ticks of the first period
    pit_since,          \* history: timer ticks since the counter wrapped
    \* ---- DbguState (at91-dbgu.h) and its character backend ----
    dbgu,               \* record: see the DBGU section
    dbgu_host,          \* characters from the host the backend still holds
    dbgu_op,            \* the step that ran last
    dbgu_ret,           \* the value or character of the last step
    \* ---- MciState (at91-mci.h) ----
    mci,                \* record: see the MCI section
    \* ---- TcChanState (at91-tc.h) ----
    tc,                 \* record: see the TC section
    tc_op,              \* the handler that ran last
    \* ---- AicStubState (at91-aic_stub.h) ----
    stub_line_state,    \* input lines recorded high
    stub_irq,           \* level of the output line
    stub_op,            \* the step that ran last: <<"handle", n, level>>,
                        \* <<"reset">> or <<"none">>
    \* ---- MatrixState (at91-matrix.h) and the boot memory of IobcSoc ----
    matrix,             \* record: see the bus matrix section
    soc,                \* record: mem_boot_target and the enabled aliases
    sys_mem,            \* the bytes of ROM, SRAM0 and EBI_NCS0 (pflash)
    mx_op,              \* the step that ran last: "write_MRCR", "read_MRCR",
                        \* "reset", "read_bootmem", "write_bootmem",
                        \* "write_region" or "none"
    mx_ret,             \* the value the last step returned when it was a read
    spi_got             \* history: the payload bytes the client has sent since the
                        \* waiting transfer was started

aicVars == <<aic_reg_smr, aic_reg_svr, aic_reg_ipr, aic_reg_imr, aic_reg_cisr,
             aic_reg_spu, aic_reg_dcr, aic_reg_ffsr, aic_irq_stack,
             aic_line_state, aic_irq, aic_fiq, aic_abort, aic_acked, aic_op, aic_ret>>

usVars == <<usart, iox_req, iox_sent, cli_next, pdc_rx_armed, us_stored, us_op, us_ret>>

srvVars == <<srv_seq, srv_client, srv_listening, srv_buffer, srv_buffer_used>>

ioxVars == <<iox_frames, iox_written, iox_stream, iox_sock, iox_dispatched, iox_conns, iox_closed, iox_cut>>

mfVars == <<mf_call, mf_sent>>

spiVars == <<spi, spi_sent, spi_op, spi_ret, spi_got>>

twiVars == <<twi, twi_sent, twi_op, twi_ret, twi_thr, twi_next>>

pmcVars == <<pmc, pmc_called, pmc_delivered, pmc_since, pmc_op, pmc_writes>>

mxVars == <<matrix, soc, sys_mem, mx_op, mx_ret>>

stubVars == <<stub_line_state, stub_irq, stub_op>>

hdVars == <<hdpdc, hd_op, hd_action>>

pioVars == <<pio, pio_op, pio_sent>>

pitVars == <<pit, pit_op, pit_ret, pit_elapsed, pit_since>>

dbguVars == <<dbgu, dbgu_host, dbgu_op, dbgu_ret>>

mciVars == <<mci>>

tcVars == <<tc, tc_op>>

vars == <<aicVars, usVars, srvVars, ioxVars, mfVars, spiVars, twiVars,
        pmcVars, mxVars, stubVars, hdVars, pioVars, pitVars,
        dbguVars, mciVars, tcVars>>

\* what a step of one component leaves alone
otherThanAic == <<usVars, srvVars, ioxVars, mfVars, spiVars, twiVars, pmcVars,
        mxVars, stubVars, hdVars, pioVars, pitVars, dbguVars,
        mciVars, tcVars>>
otherThanUsart == <<aicVars, srv_buffer, srv_buffer_used, ioxVars, mfVars,
        spiVars, twiVars, pmcVars, mxVars, stubVars, hdVars, pioVars,
        pitVars, dbguVars, mciVars, tcVars>>
otherThanIox == <<aicVars, usVars, srv_seq, mfVars, spiVars, twiVars, pmcVars,
        mxVars, stubVars, hdVars, pioVars, pitVars, dbguVars,
        mciVars, tcVars>>
otherThanMf == <<aicVars, usVars, srvVars, ioxVars, spiVars, twiVars, pmcVars,
        mxVars, stubVars, hdVars, pioVars, pitVars, dbguVars,
        mciVars, tcVars>>
otherThanSpi == <<aicVars, usVars, srvVars, ioxVars, mfVars, twiVars, pmcVars,
        mxVars, stubVars, hdVars, pioVars, pitVars, dbguVars,
        mciVars, tcVars>>
otherThanTwi == <<aicVars, usVars, srvVars, ioxVars, mfVars, spiVars, pmcVars,
        mxVars, stubVars, hdVars, pioVars, pitVars, dbguVars,
        mciVars, tcVars>>
otherThanPmc == <<aicVars, usVars, srvVars, ioxVars, mfVars, spiVars, twiVars,
        mxVars, stubVars, hdVars, pioVars, pitVars, dbguVars,
        mciVars, tcVars>>
otherThanMx == <<aicVars, usVars, srvVars, ioxVars, mfVars, spiVars, twiVars,
        pmcVars, stubVars, hdVars, pioVars, pitVars, dbguVars,
        mciVars, tcVars>>
otherThanStub == <<aicVars, usVars, srvVars, ioxVars, mfVars, spiVars, twiVars,
        pmcVars, mxVars, hdVars, pioVars, pitVars, dbguVars, mciVars,
        tcVars>>
otherThanHd == <<aicVars, usVars, srvVars, ioxVars, mfVars, spiVars, twiVars,
        pmcVars, mxVars, stubVars, pioVars, pitVars, dbguVars,
        mciVars, tcVars>>
otherThanPio == <<aicVars, usVars, srvVars, ioxVars, mfVars, spiVars, twiVars,
        pmcVars, mxVars, stubVars, hdVars, pitVars, dbguVars,
        mciVars, tcVars>>
otherThanPit == <<aicVars, usVars, srvVars, ioxVars, mfVars, spiVars, twiVars,
        pmcVars, mxVars, stubVars, hdVars, pioVars, dbguVars,
        mciVars, tcVars>>
otherThanDbgu == <<aicVars, usVars, srvVars, ioxVars, mfVars, spiVars, twiVars,
        pmcVars, mxVars, stubVars, hdVars, pioVars, pitVars, mciVars,
        tcVars>>
otherThanMci == <<aicVars, usVars, srvVars, ioxVars, mfVars, spiVars, twiVars,
        pmcVars, mxVars, stubVars, hdVars, pioVars, pitVars,
        dbguVars, tcVars>>
otherThanTc == <<aicVars, usVars, srvVars, ioxVars, mfVars, spiVars, twiVars,
        pmcVars, mxVars, stubVars, hdVars, pioVars, pitVars,
        dbguVars, mciVars>>

(***************************************************************************)
(*                              A I C                                      *)
(***************************************************************************)
\* The interrupt lines modelled, of the device's lines 0..31: the FIQ line 0
\* and two internal sources.
Lines == {0, 1, 2}
Sources == Lines \ {0}
LastSource == CHOOSE i \in Sources : \A j \in Sources : j <= i

ST_ACTIVE_LOW == 0
ST_ACTIVE_FALLING == 1
ST_ACTIVE_HIGH == 2
ST_ACTIVE_RISING == 3
IRQ_PRIO_SPURIOUS == 8
IRQ_NUM_SPURIOUS == 255
\* first external interrupt line; lines 1 .. 28 are internal sources
FirstExternalLine == 29
\* capacity test of aic_irq_stack_push: abort when irq_stack_pos >= 8
StackPosLimit == 8

\* values the modelled firmware programs
SmrVals == {pri + 32 * st : pri \in {0, 5}, st \in {ST_ACTIVE_LOW, ST_ACTIVE_FALLING}}
SvrOf(irq) == 16 * (irq + 1)
SpuVals == {8}

aic_irq_get_priority(smr, irq) == smr[irq] % 8

aic_irq_get_type(smr, irq) ==
    LET srctype == (smr[irq] \div 32) % 4
    IN  IF 0 < irq /\ irq < FirstExternalLine /\ srctype = ST_ACTIVE_LOW
        THEN ST_ACTIVE_HIGH
        ELSE IF 0 < irq /\ irq < FirstExternalLine /\ srctype = ST_ACTIVE_FALLING
        THEN ST_ACTIVE_RISING
        ELSE srctype

aic_irq_is_edge_triggered(smr, irq) == aic_irq_get_type(smr, irq) % 2 = 1

aic_irq_is_fast(ffsr, irq) == irq \in (ffsr \cup {0})

\* the comparison of the selection loop: a later line replaces the candidate
\* only with a strictly greater priority
HigherPriorityMut(c_pri, h_pri) == c_pri >= h_pri
HigherPriority(c_pri, h_pri) == c_pri > h_pri

\* the loop of aic_irq_get_highest_pending from c_irq upwards
RECURSIVE HighestPendingLoop(_, _, _, _, _)
HighestPendingLoop(pending, smr, c_irq, h_irq, h_pri) ==
    IF c_irq > LastSource THEN h_irq
    ELSE LET c_pri == aic_irq_get_priority(smr, c_irq)
         IN  IF c_irq \in pending /\ HigherPriority(c_pri, h_pri)
             THEN HighestPendingLoop(pending, smr, c_irq + 1, c_irq, c_pri)
             ELSE HighestPendingLoop(pending, smr, c_irq + 1, h_irq, h_pri)

aic_irq_get_highest_pending(ipr, imr, ffsr, smr) ==
    HighestPendingLoop((ipr \cap imr) \ ffsr, smr, 1, -1, -1)

\* aic_irq_stack_push stores its pri argument in the irq field (the second
\* assignment overwrites the first); the pri field of a slot is never
\* assigned and keeps the value of the zero-filled device instance.
StackElem(irq, pri) == [irq |-> pri, pri |-> 0]

aic_irq_stack_push(stack, irq, pri) == Append(stack, StackElem(irq, pri))

aic_irq_stack_pop(stack) ==
    IF Len(stack) > 0 THEN SubSeq(stack, 1, Len(stack) - 1) ELSE stack

\* the value aic_core_irq_update leaves in reg_cisr (and on the irq/fiq outputs)
aic_core_irq_update(ipr, imr, ffsr, dcr, smr, stack) ==
    LET irq_pending == ipr \cap imr
        irq_fast == ffsr \cup {0}
        nfiq == (irq_pending \cap irq_fast) # {}
        nirq0 == (irq_pending \ irq_fast) # {}
        nirq == IF nirq0 /\ Len(stack) > 0
                THEN aic_irq_get_priority(smr, aic_irq_get_highest_pending(ipr, imr, ffsr, smr))
                        > stack[Len(stack)].pri
                ELSE nirq0
    IN  IF "GMSK" \in dcr THEN {}
        ELSE (IF nirq THEN {"NIRQ"} ELSE {}) \cup (IF nfiq THEN {"NFIQ"} ELSE {})

AicInit ==
    /\ aic_reg_smr = [i \in Lines |-> 0]
    /\ aic_reg_svr = [i \in Lines |-> 0]
    /\ aic_reg_ipr = {}
    /\ aic_reg_imr = {}
    /\ aic_reg_cisr = {}
    /\ aic_reg_spu = 0
    /\ aic_reg_dcr = {}
    /\ aic_reg_ffsr = {}
    /\ aic_irq_stack = <<>>
    /\ aic_line_state = {}
    /\ aic_irq = FALSE
    /\ aic_fiq = FALSE
    /\ aic_abort = FALSE
    /\ aic_acked = FALSE
    /\ aic_op = "other"
    /\ aic_ret = 0

\* values the modelled firmware writes to the mask registers and to DCR
MaskVals == {{i} : i \in Sources}
AllLines == {Lines}
DcrVals == {{}, {"PROT"}}

\* New register values followed by the handler's closing aic_core_irq_update:
\* reg_cisr is recomputed and both output lines are driven from it.
AicCommit(ipr, imr, ffsr, dcr, smr, stack) ==
    /\ aic_reg_ipr' = ipr
    /\ aic_reg_imr' = imr
    /\ aic_reg_ffsr' = ffsr
    /\ aic_reg_dcr' = dcr
    /\ aic_reg_smr' = smr
    /\ aic_irq_stack' = stack
    /\ aic_reg_cisr' = aic_core_irq_update(ipr, imr, ffsr, dcr, smr, stack)
    /\ aic_irq' = ("NIRQ" \in aic_reg_cisr')
    /\ aic_fiq' = ("NFIQ" \in aic_reg_cisr')

AicAbort(name) ==
    /\ aic_abort' = TRUE
    /\ aic_op' = name
    /\ aic_ret' = 0
    /\ UNCHANGED <<aic_reg_smr, aic_reg_svr, aic_reg_ipr, aic_reg_imr, aic_reg_cisr,
                   aic_reg_spu, aic_reg_dcr, aic_reg_ffsr, aic_irq_stack,
                   aic_line_state, aic_irq, aic_fiq, aic_acked>>

\* aic_irq_handle: input line n is driven to level
aic_irq_handle(n, level) ==
    LET changed == (n \in aic_line_state) # level
        type == aic_irq_get_type(aic_reg_smr, n)
        edge == \/ changed /\ level /\ type = ST_ACTIVE_RISING
                \/ changed /\ ~level /\ type = ST_ACTIVE_FALLING
        active == \/ edge
                  \/ level /\ type = ST_ACTIVE_HIGH
                  \/ ~level /\ type = ST_ACTIVE_LOW
        ipr == IF active THEN aic_reg_ipr \cup {n}
               ELSE IF ~aic_irq_is_edge_triggered(aic_reg_smr, n) THEN aic_reg_ipr \ {n}
               ELSE aic_reg_ipr
    IN  /\ ~aic_abort
        /\ aic_line_state' = IF level THEN aic_line_state \cup {n} ELSE aic_line_state \ {n}
        /\ AicCommit(ipr, aic_reg_imr, aic_reg_ffsr, aic_reg_dcr, aic_reg_smr, aic_irq_stack)
        /\ aic_op' = "other"
        /\ aic_ret' = 0
        /\ UNCHANGED <<aic_reg_svr, aic_reg_spu, aic_abort, aic_acked>>

\* The interrupt entry shared by the IVR read (protect mode off) and the IVR
\* write (protect mode on): push the in-service entry, clear an edge-triggered
\* non-fast pending bit.
AckStack(irq) ==
    IF irq < 0
    THEN aic_irq_stack_push(aic_irq_stack, IRQ_NUM_SPURIOUS, IRQ_PRIO_SPURIOUS)
    ELSE aic_irq_stack_push(aic_irq_stack, irq, aic_irq_get_priority(aic_reg_smr, irq))

AckClearsMut(irq) == irq >= 0 /\ ~aic_irq_is_fast(aic_reg_ffsr, irq)
AckClears(irq) ==
    irq >= 0 /\ aic_irq_is_edge_triggered(aic_reg_smr, irq) /\ ~aic_irq_is_fast(aic_reg_ffsr, irq)

AckIpr(irq) == IF AckClears(irq) THEN aic_reg_ipr \ {irq} ELSE aic_reg_ipr

\* the capacity test off by one more: no abort before a tenth entry
StackFullMut == Len(aic_irq_stack) - 1 >= StackPosLimit + 1
\* aic_irq_stack_push aborts instead of pushing when irq_stack_pos >= 8
StackFull == Len(aic_irq_stack) - 1 >= StackPosLimit

IvrValue(irq) == IF irq < 0 THEN aic_reg_spu ELSE aic_reg_svr[irq]

\* aic_mmio_read, case AIC_IVR
aic_mmio_read_IVR ==
    LET irq == aic_irq_get_highest_pending(aic_reg_ipr, aic_reg_imr, aic_reg_ffsr, aic_reg_smr)
    IN  /\ ~aic_abort
        /\ IF "PROT" \notin aic_reg_dcr
           THEN IF StackFull
                THEN AicAbort("read_IVR")
                ELSE /\ AicCommit(AckIpr(irq), aic_reg_imr, aic_reg_ffsr, aic_reg_dcr,
                                  aic_reg_smr, AckStack(irq))
                     /\ aic_ret' = IvrValue(irq)
                     /\ aic_op' = "read_IVR"
                     /\ aic_acked' = (aic_acked \/ irq >= 0)
                     /\ UNCHANGED <<aic_reg_svr, aic_reg_spu, aic_line_state, aic_abort>>
           ELSE /\ aic_ret' = IvrValue(irq)
                /\ aic_op' = "read_IVR"
                /\ UNCHANGED <<aic_reg_smr, aic_reg_svr, aic_reg_ipr, aic_reg_imr,
                               aic_reg_cisr, aic_reg_spu, aic_reg_dcr, aic_reg_ffsr,
                               aic_irq_stack, aic_line_state, aic_irq, aic_fiq, aic_abort,
                               aic_acked>>

\* aic_mmio_read, case AIC_FVR
aic_mmio_read_FVR ==
    /\ ~aic_abort
    /\ aic_op' = "other"
    /\ aic_ret' = 0
    /\ IF aic_reg_ipr \cap (aic_reg_ffsr \cup {0}) # {}
       THEN /\ TRUE     \* returns reg_svr[0]
            /\ IF 0 \in aic_reg_ipr /\ aic_irq_is_edge_triggered(aic_reg_smr, 0)
               THEN /\ AicCommit(aic_reg_ipr \ {0}, aic_reg_imr, aic_reg_ffsr, aic_reg_dcr,
                                 aic_reg_smr, aic_irq_stack)
                    /\ UNCHANGED <<aic_reg_svr, aic_reg_spu, aic_line_state, aic_abort,
                                   aic_acked>>
               ELSE UNCHANGED <<aic_reg_smr, aic_reg_svr, aic_reg_ipr, aic_reg_imr,
                                aic_reg_cisr, aic_reg_spu, aic_reg_dcr, aic_reg_ffsr,
                                aic_irq_stack, aic_line_state, aic_irq, aic_fiq, aic_abort,
                               aic_acked>>
       ELSE /\ TRUE     \* returns reg_spu
            /\ UNCHANGED <<aic_reg_smr, aic_reg_svr, aic_reg_ipr, aic_reg_imr,
                           aic_reg_cisr, aic_reg_spu, aic_reg_dcr, aic_reg_ffsr,
                           aic_irq_stack, aic_line_state, aic_irq, aic_fiq, aic_abort,
                               aic_acked>>

\* aic_mmio_read, case AIC_ISR
aic_mmio_read_ISR ==
    /\ ~aic_abort
    /\ IF Len(aic_irq_stack) = 0 \/ aic_irq_stack[Len(aic_irq_stack)].irq = IRQ_NUM_SPURIOUS
       THEN AicAbort("read_ISR")
       ELSE /\ aic_ret' = aic_irq_stack[Len(aic_irq_stack)].irq
            /\ aic_op' = "read_ISR"
            /\ UNCHANGED <<aic_reg_smr, aic_reg_svr, aic_reg_ipr, aic_reg_imr,
                           aic_reg_cisr, aic_reg_spu, aic_reg_dcr, aic_reg_ffsr,
                           aic_irq_stack, aic_line_state, aic_irq, aic_fiq, aic_abort,
                               aic_acked>>

\* the lines of a written mask that ICCR/ISCR act on: edge-triggered ones only
EdgeOnly(value) == {i \in value : aic_irq_is_edge_triggered(aic_reg_smr, i)}

\* aic_mmio_write, one definition per register case; every case ends in
\* aic_core_irq_update
AicWrite(name, ipr, imr, ffsr, dcr, smr, stack) ==
    /\ ~aic_abort
    /\ AicCommit(ipr, imr, ffsr, dcr, smr, stack)
    /\ aic_op' = name
    /\ aic_ret' = 0
    /\ aic_acked' = (aic_acked /\ name # "write_EOICR")
    /\ UNCHANGED <<aic_line_state, aic_abort>>

aic_mmio_write_SMR(i, value) ==
    /\ AicWrite("other", aic_reg_ipr, aic_reg_imr, aic_reg_ffsr, aic_reg_dcr,
                [aic_reg_smr EXCEPT ![i] = value], aic_irq_stack)
    /\ UNCHANGED <<aic_reg_svr, aic_reg_spu>>

aic_mmio_write_SVR(i, value) ==
    /\ AicWrite("other", aic_reg_ipr, aic_reg_imr, aic_reg_ffsr, aic_reg_dcr,
                aic_reg_smr, aic_irq_stack)
    /\ aic_reg_svr' = [aic_reg_svr EXCEPT ![i] = value]
    /\ UNCHANGED aic_reg_spu

\* the protect-mode write pushes but leaves the acknowledged edge pending
WriteIvrKeepsPendingMut ==
    LET irq == aic_irq_get_highest_pending(aic_reg_ipr, aic_reg_imr, aic_reg_ffsr, aic_reg_smr)
    IN  IF "PROT" \in aic_reg_dcr
        THEN IF StackFull
             THEN ~aic_abort /\ AicAbort("write_IVR")
             ELSE /\ AicWrite("write_IVR", aic_reg_ipr, aic_reg_imr, aic_reg_ffsr,
                              aic_reg_dcr, aic_reg_smr, AckStack(irq))
                  /\ UNCHANGED <<aic_reg_svr, aic_reg_spu>>
        ELSE /\ AicWrite("write_IVR", aic_reg_ipr, aic_reg_imr, aic_reg_ffsr,
                         aic_reg_dcr, aic_reg_smr, aic_irq_stack)
             /\ UNCHANGED <<aic_reg_svr, aic_reg_spu>>

aic_mmio_write_IVR ==
    LET irq == aic_irq_get_highest_pending(aic_reg_ipr, aic_reg_imr, aic_reg_ffsr, aic_reg_smr)
    IN  IF "PROT" \in aic_reg_dcr
        THEN IF StackFull
             THEN ~aic_abort /\ AicAbort("write_IVR")
             ELSE /\ AicWrite("write_IVR", AckIpr(irq), aic_reg_imr, aic_reg_ffsr,
                              aic_reg_dcr, aic_reg_smr, AckStack(irq))
                  /\ UNCHANGED <<aic_reg_svr, aic_reg_spu>>
        ELSE /\ AicWrite("write_IVR", aic_reg_ipr, aic_reg_imr, aic_reg_ffsr,
                         aic_reg_dcr, aic_reg_smr, aic_irq_stack)
             /\ UNCHANGED <<aic_reg_svr, aic_reg_spu>>

aic_mmio_write_IECR(value) ==
    /\ AicWrite("other", aic_reg_ipr, aic_reg_imr \cup value, aic_reg_ffsr,
                aic_reg_dcr, aic_reg_smr, aic_irq_stack)
    /\ UNCHANGED <<aic_reg_svr, aic_reg_spu>>

aic_mmio_write_IDCR(value) ==
    /\ AicWrite("other", aic_reg_ipr, aic_reg_imr \ value, aic_reg_ffsr,
                aic_reg_dcr, aic_reg_smr, aic_irq_stack)
    /\ UNCHANGED <<aic_reg_svr, aic_reg_spu>>

aic_mmio_write_ICCR(value) ==
    /\ AicWrite("other", aic_reg_ipr \ EdgeOnly(value), aic_reg_imr, aic_reg_ffsr,
                aic_reg_dcr, aic_reg_smr, aic_irq_stack)
    /\ UNCHANGED <<aic_reg_svr, aic_reg_spu>>

\* case AIC_ISCR has no break: control falls through into case AIC_EOICR
aic_mmio_write_ISCR(value) ==
    /\ AicWrite("write_ISCR", aic_reg_ipr \cup EdgeOnly(value), aic_reg_imr, aic_reg_ffsr,
                aic_reg_dcr, aic_reg_smr, aic_irq_stack_pop(aic_irq_stack))
    /\ UNCHANGED <<aic_reg_svr, aic_reg_spu>>

aic_mmio_write_EOICR ==
    /\ AicWrite("write_EOICR", aic_reg_ipr, aic_reg_imr, aic_reg_ffsr,
                aic_reg_dcr, aic_reg_smr, aic_irq_stack_pop(aic_irq_stack))
    /\ UNCHANGED <<aic_reg_svr, aic_reg_spu>>

aic_mmio_write_SPU(value) ==
    /\ AicWrite("other", aic_reg_ipr, aic_reg_imr, aic_reg_ffsr,
                aic_reg_dcr, aic_reg_smr, aic_irq_stack)
    /\ aic_reg_spu' = value
    /\ UNCHANGED aic_reg_svr

aic_mmio_write_DCR(value) ==
    /\ AicWrite("other", aic_reg_ipr, aic_reg_imr, aic_reg_ffsr,
                value, aic_reg_smr, aic_irq_stack)
    /\ UNCHANGED <<aic_reg_svr, aic_reg_spu>>

aic_mmio_write_FFER(value) ==
    /\ AicWrite("other", aic_reg_ipr, aic_reg_imr, aic_reg_ffsr \cup value,
                aic_reg_dcr, aic_reg_smr, aic_irq_stack)
    /\ UNCHANGED <<aic_reg_svr, aic_reg_spu>>

aic_mmio_write_FFDR(value) ==
    /\ AicWrite("other", aic_reg_ipr, aic_reg_imr, aic_reg_ffsr \ value,
                aic_reg_dcr, aic_reg_smr, aic_irq_stack)
    /\ UNCHANGED <<aic_reg_svr, aic_reg_spu>>

\* aic_device_reset: registers, stack position and line state; the output
\* lines are not driven
aic_device_reset ==
    /\ ~aic_abort
    /\ aic_reg_smr' = [i \in Lines |-> 0]
    /\ aic_reg_svr' = [i \in Lines |-> 0]
    /\ aic_reg_ipr' = {}
    /\ aic_reg_imr' = {}
    /\ aic_reg_cisr' = {}
    /\ aic_reg_spu' = 0
    /\ aic_reg_dcr' = {}
    /\ aic_reg_ffsr' = {}
    /\ aic_irq_stack' = <<>>
    /\ aic_line_state' = {}
    /\ aic_op' = "reset"
    /\ aic_ret' = 0
    /\ aic_acked' = FALSE
    /\ UNCHANGED <<aic_irq, aic_fiq, aic_abort>>

\* the modelled firmware programs the vectors in line order, SPU last
VectorsBelowSet(i) == \A j \in 1 .. i - 1 : aic_reg_svr[j] = SvrOf(j)

\* The AIC under firmware and device activity.  Interrupt entries are taken
\* while the in-service stack holds fewer than MaxStack entries.
AicStep ==
    \/ \E n \in Sources, level \in BOOLEAN : aic_irq_handle(n, level) /\ UNCHANGED otherThanAic
    \/ Len(aic_irq_stack) < MaxStack /\ aic_mmio_read_IVR /\ UNCHANGED otherThanAic
    \/ aic_mmio_read_FVR /\ UNCHANGED otherThanAic
    \/ aic_mmio_read_ISR /\ UNCHANGED otherThanAic
    \/ \E i \in Sources, value \in SmrVals : aic_mmio_write_SMR(i, value) /\ UNCHANGED otherThanAic
    \/ \E i \in Sources : VectorsBelowSet(i) /\ aic_mmio_write_SVR(i, SvrOf(i)) /\ UNCHANGED otherThanAic
    \/ Len(aic_irq_stack) < MaxStack /\ aic_mmio_write_IVR /\ UNCHANGED otherThanAic
    \/ \E value \in AllLines : aic_mmio_write_IECR(value) /\ UNCHANGED otherThanAic
    \/ \E value \in AllLines : aic_mmio_write_IDCR(value) /\ UNCHANGED otherThanAic
    \/ \E value \in MaskVals : aic_mmio_write_ICCR(value) /\ UNCHANGED otherThanAic
    \/ \E value \in MaskVals : aic_mmio_write_ISCR(value) /\ UNCHANGED otherThanAic
    \/ aic_mmio_write_EOICR /\ UNCHANGED otherThanAic
    \/ \E value \in SpuVals : VectorsBelowSet(LastSource + 1) /\ aic_mmio_write_SPU(value) /\ UNCHANGED otherThanAic
    \/ \E value \in DcrVals : aic_mmio_write_DCR(value) /\ UNCHANGED otherThanAic
    \/ \E value \in {{LastSource}} : aic_mmio_write_FFER(value) /\ UNCHANGED otherThanAic
    \/ \E value \in {{LastSource}} : aic_mmio_write_FFDR(value) /\ UNCHANGED otherThanAic
    \/ aic_device_reset /\ UNCHANGED otherThanAic

(***************************************************************************)
(*                 I O X   t r a n s f e r   s e r v e r                   *)
(*                                                                         *)
(* The server reads the client's socket in client_receive, assembles a     *)
(* frame in buffer[] and passes it to the handler of the peripheral.  The  *)
(* socket is a byte stream: what the client wrote arrives in pieces of any *)
(* size, and a read returns the bytes that have arrived, up to the number  *)
(* asked for.  The handler here records the frame it is given.             *)
(***************************************************************************)
IOX_CAT_DATA == 1
IOX_CAT_FAULT == 2
IOX_CID_DATA_IN == 1
IOX_CID_DATA_OUT == 2
IOX_CID_FAULT_OVRE == 1
HeaderLen == 4

\* payload lengths of the frames a client writes
ClientLens == {0, 1, 2}
LongestLen == CHOOSE n \in ClientLens : \A m \in ClientLens : m <= n

\* buffer[] holds a header and the longest payload a byte of the model can
\* declare (the source's holds 256 bytes for a len of at most 255)
BufferLen == HeaderLen + LongestLen + MaxFrames

Frame(seq, cat, id, payload) == [seq |-> seq, cat |-> cat, id |-> id, payload |-> payload]

\* struct iox_data_frame on the wire
FrameBytes(frame) ==
    <<frame.seq, frame.cat, frame.id, Len(frame.payload)>> \o frame.payload

\* the frame at the start of buffer[], as the handler reads it
BufferFrame(buffer) ==
    Frame(buffer[1], buffer[2], buffer[3],
          SubSeq(buffer, HeaderLen + 1, HeaderLen + buffer[HeaderLen]))

\* sizeof(struct iox_data_frame) + frame->len
FrameLen(buffer) == HeaderLen + buffer[HeaderLen]

Min(a, b) == IF a < b THEN a ELSE b

\* qio_channel_read(ioc, buffer + at, remaining): the bytes read, stored
StoreAt(buffer, at, bytes) ==
    [i \in 1 .. Len(buffer) |->
        IF i > at /\ i <= at + Len(bytes) THEN bytes[i - at] ELSE buffer[i]]

\* client_receive works on r: buffer, buffer_used, sock (arrived, unread),
\* dispatched (frames given to the handler), blocked (a read found nothing)
ReadHeader(r) ==
    IF r.buffer_used >= HeaderLen THEN r
    ELSE IF r.sock = <<>> THEN [r EXCEPT !.blocked = TRUE]
    ELSE [r EXCEPT
            !.buffer = StoreAt(@, 0, SubSeq(r.sock, 1,
                                   Min(HeaderLen - r.buffer_used, Len(r.sock)))),
            !.sock = SubSeq(@, Min(HeaderLen - r.buffer_used, Len(r.sock)) + 1, Len(@)),
            !.buffer_used = @ + HeaderLen]

ReadPayload(r) ==
    IF r.blocked \/ r.buffer_used >= FrameLen(r.buffer) THEN r
    ELSE IF r.sock = <<>> THEN [r EXCEPT !.blocked = TRUE]
    ELSE [r EXCEPT
            !.buffer = StoreAt(@, r.buffer_used, SubSeq(r.sock, 1,
                                   Min(FrameLen(r.buffer) - r.buffer_used, Len(r.sock)))),
            !.sock = SubSeq(@, Min(FrameLen(r.buffer) - r.buffer_used, Len(r.sock)) + 1,
                            Len(@)),
            !.buffer_used = @ + Min(FrameLen(r.buffer) - r.buffer_used, Len(r.sock))]

Dispatch(r) ==
    IF r.blocked \/ r.buffer_used # FrameLen(r.buffer) THEN r
    ELSE [r EXCEPT !.dispatched = Append(@, BufferFrame(r.buffer)), !.buffer_used = 0]

RECURSIVE client_receive_loop(_)
client_receive_loop(r) ==
    IF r.blocked THEN r ELSE client_receive_loop(Dispatch(ReadPayload(ReadHeader(r))))

\* the handler's record after client_receive has run on the bytes of sock
Received(buffer, buffer_used, sock, dispatched) ==
    client_receive_loop([buffer |-> buffer, buffer_used |-> buffer_used, sock |-> sock,
                         dispatched |-> dispatched, blocked |-> FALSE])

EmptyBuffer == [i \in 1 .. BufferLen |-> 0]

\* ---- connections ----
\* srv: client, listening, and closed (the connection a call closes, or NULL)
NULL == 0
Server == [client |-> srv_client, listening |-> srv_listening, closed |-> NULL]

iox_client_connect(srv, sioc) == [srv EXCEPT !.listening = FALSE, !.client = sioc]

DisconnectMut(srv) ==
    IF srv.client = NULL THEN srv
    ELSE [srv EXCEPT !.closed = srv.client, !.client = NULL]
iox_client_disconnect(srv) ==
    IF srv.client = NULL THEN srv
    ELSE [srv EXCEPT !.closed = srv.client, !.client = NULL, !.listening = TRUE]

server_accept(srv, sioc) ==
    IF srv.client # NULL THEN [srv EXCEPT !.closed = sioc]
    ELSE iox_client_connect(srv, sioc)

client_hup(srv) == iox_client_disconnect(srv)

\* the listener: a connection that arrives is handed to the client function;
\* while none is set the listener is closed to connects
ListenerConnect(srv, sioc) ==
    IF srv.listening THEN server_accept(srv, sioc) ELSE [srv EXCEPT !.closed = sioc]

SrvCommit(srv) ==
    /\ srv_client' = srv.client
    /\ srv_listening' = srv.listening

IoxInit ==
    /\ srv_seq = 0
    /\ srv_client = NULL
    /\ srv_listening = TRUE
    /\ srv_buffer = EmptyBuffer
    /\ srv_buffer_used = 0
    /\ iox_frames = <<>>
    /\ iox_written = 0
    /\ iox_stream = <<>>
    /\ iox_sock = <<>>
    /\ iox_dispatched = <<>>
    /\ iox_conns = 0
    /\ iox_closed = {}
    /\ iox_cut = FALSE

\* ---- inputs ----
\* the client numbers its frames in seq; a payload of len bytes is 1 .. len
ClientFrame(len) ==
    Frame(Len(iox_frames) + 1, IOX_CAT_DATA, IOX_CID_DATA_IN, [i \in 1 .. len |-> i])

\* ---- actions ----
\* a connection arrives at the listening socket
listener_connect ==
    /\ iox_conns < MaxConns
    /\ iox_conns' = iox_conns + 1
    /\ LET srv == ListenerConnect(Server, iox_conns + 1)
       IN  /\ SrvCommit(srv)
           /\ iox_closed' = iox_closed \cup ({srv.closed} \ {NULL})
    /\ UNCHANGED <<srv_buffer, srv_buffer_used, iox_frames, iox_written, iox_stream,
                   iox_sock, iox_dispatched, iox_cut>>

\* the G_IO_HUP watch fires: the client has gone, and with it what it wrote
client_disconnects ==
    /\ srv_client # NULL
    /\ LET srv == client_hup(Server)
       IN  /\ SrvCommit(srv)
           /\ iox_closed' = iox_closed \cup ({srv.closed} \ {NULL})
    /\ iox_cut' = (iox_cut \/ iox_stream # <<>> \/ iox_sock # <<>> \/ srv_buffer_used # 0)
    /\ iox_frames' = <<>>
    /\ iox_stream' = <<>>
    /\ iox_sock' = <<>>
    /\ iox_dispatched' = <<>>
    /\ UNCHANGED <<srv_buffer, srv_buffer_used, iox_written, iox_conns>>

\* the client writes a well-formed frame to its end of the socket
client_write(frame) ==
    /\ srv_client # NULL
    /\ iox_written < MaxFrames
    /\ iox_written' = iox_written + 1
    /\ iox_frames' = Append(iox_frames, frame)
    /\ iox_stream' = iox_stream \o FrameBytes(frame)
    /\ UNCHANGED <<srv_client, srv_listening, srv_buffer, srv_buffer_used, iox_sock,
                   iox_dispatched, iox_conns, iox_closed, iox_cut>>

\* the next n bytes in flight arrive at the server's end
socket_deliver(n) ==
    /\ n <= Len(iox_stream)
    /\ iox_sock' = iox_sock \o SubSeq(iox_stream, 1, n)
    /\ iox_stream' = SubSeq(iox_stream, n + 1, Len(iox_stream))
    /\ UNCHANGED <<srv_client, srv_listening, srv_buffer, srv_buffer_used, iox_frames,
                   iox_written, iox_dispatched, iox_conns, iox_closed, iox_cut>>

\* the G_IO_IN watch fires
client_receive ==
    /\ srv_client # NULL
    /\ iox_sock # <<>>
    /\ LET r == Received(srv_buffer, srv_buffer_used, iox_sock, iox_dispatched)
       IN  /\ srv_buffer' = r.buffer
           /\ srv_buffer_used' = r.buffer_used
           /\ iox_sock' = r.sock
           /\ iox_dispatched' = r.dispatched
    /\ UNCHANGED <<srv_client, srv_listening, iox_frames, iox_written, iox_stream,
                   iox_conns, iox_closed, iox_cut>>

IoxStep ==
    \/ listener_connect /\ UNCHANGED otherThanIox
    \/ client_disconnects /\ UNCHANGED otherThanIox
    \/ \E len \in ClientLens : client_write(ClientFrame(len)) /\ UNCHANGED otherThanIox
    \/ \E n \in 1 .. BufferLen : socket_deliver(n) /\ UNCHANGED otherThanIox
    \/ client_receive /\ UNCHANGED otherThanIox

\* connections come and go while clients write; the server reads nothing yet
ConnStep ==
    \/ listener_connect /\ UNCHANGED otherThanIox
    \/ client_disconnects /\ UNCHANGED otherThanIox
    \/ \E len \in ClientLens : client_write(ClientFrame(len)) /\ UNCHANGED otherThanIox
    \/ \E n \in 1 .. BufferLen : socket_deliver(n) /\ UNCHANGED otherThanIox

(***************************************************************************)
(*                     U S A R T   with   P D C                            *)
(*                                                                         *)
(* The handlers of at91-usart.c call one another and the helper of         *)
(* at91-pdc.h in sequence on the device structure.  They are written here  *)
(* as functions from a record s (the UsartState with its At91Pdc and the   *)
(* IoXferServer it sends through) to the record after the call, so that a  *)
(* handler is the composition of the calls it makes.  Fields of s:         *)
(*   rcvbuf, csr, rhr, imr, irq, rx_enabled, tx_enabled, rx_dma_enabled,   *)
(*   rcr, rncr, tcr, tncr, ptsr,                                           *)
(*   rpr, rnpr                       the device and its PDC registers      *)
(*   seq, client                     IoXferServer.seq, a client is attached*)
(*   sent                            frames written to the socket by the   *)
(*                                   handler that is running               *)
(*   stored                          its stores to guest memory            *)
(* The transmit pointer registers and the guest memory the PDC loads from  *)
(* are not part of the record; a transmit DMA sends zero bytes of the      *)
(* programmed count.  Of the four fault-injection frames OVRE is    *)
(* modelled; FRAME, PARE and TIMEOUT set their flag in the same way.       *)
(***************************************************************************)
ENXIO == 6
MaxFrameLen == 255
CounterWidth == 65536
SeqWidth == 256
SeqOutBit == 128

IOX_SEQ_DIRECTION_SET_OUT(x) == IF (x \div SeqOutBit) % 2 = 1 THEN x ELSE x + SeqOutBit

\* a 32-bit value as the four payload bytes the (little-endian) host stores
U32Bytes(value) == <<value % 256, (value \div 256) % 256,
                     (value \div 65536) % 256, (value \div 16777216) % 256>>

UpdateIrqLowMut(s) == [s EXCEPT !.irq = FALSE]
update_irq(s) ==
    LET csr == IF s.rx_enabled THEN s.csr \ {"RXRDY"} ELSE s.csr
    IN  [s EXCEPT !.irq = (csr \cap s.imr) # {}]

\* ---- ioxfer-server ----
iox_send_frame(s, frame) ==
    IF ~s.client THEN s ELSE [s EXCEPT !.sent = Append(@, frame)]

iox_send_data(s, seq, cat, id, data) == iox_send_frame(s, Frame(seq, cat, id, data))

RECURSIVE MultiframeMut(_, _, _, _, _)
MultiframeMut(s, seq, cat, id, data) ==
    IF Len(data) >= MaxFrameLen
    THEN MultiframeMut(
             iox_send_data(s, seq, cat, id, SubSeq(data, 1, MaxFrameLen)),
             seq, cat, id, SubSeq(data, MaxFrameLen + 1, Len(data)))
    ELSE iox_send_data(s, seq, cat, id, data)

RECURSIVE iox_send_data_multiframe(_, _, _, _, _)
iox_send_data_multiframe(s, seq, cat, id, data) ==
    IF Len(data) > MaxFrameLen
    THEN iox_send_data_multiframe(
             iox_send_data(s, seq, cat, id, SubSeq(data, 1, MaxFrameLen)),
             seq, cat, id, SubSeq(data, MaxFrameLen + 1, Len(data)))
    ELSE iox_send_data(s, seq, cat, id, data)

iox_send_u32(s, seq, cat, id, value) == iox_send_frame(s, Frame(seq, cat, id, U32Bytes(value)))

NextSeqMut(seq) == (seq + 1) % SeqWidth
NextSeq(seq) == IOX_SEQ_DIRECTION_SET_OUT(seq + 1) % SeqWidth
iox_next_seqid(s) == [s EXCEPT !.seq = NextSeq(s.seq)]

iox_send_data_multiframe_new(s, cat, id, data) ==
    LET t == iox_next_seqid(s) IN iox_send_data_multiframe(t, t.seq, cat, id, data)

RespSeqMut(frame) == IOX_SEQ_DIRECTION_SET_OUT(frame.seq)
RespSeq(frame) == frame.seq
iox_send_u32_resp(s, frame, value) == iox_send_u32(s, RespSeq(frame), frame.cat, frame.id, value)

\* ---- receiver ----
xfer_chr_receive(s, chr) ==
    update_irq([s EXCEPT !.rhr = chr,
                         !.csr = (IF "RXRDY" \in @ /\ s.rx_enabled THEN @ \cup {"OVRE"} ELSE @)
                                     \cup {"RXRDY"}])

xfer_receiver_next(s) ==
    IF s.rcvbuf = <<>> THEN s
    ELSE IF "RXRDY" \in s.csr THEN s
    ELSE xfer_chr_receive([s EXCEPT !.rcvbuf = Tail(@)], Head(s.rcvbuf))

UpdregKeepsPointerMut(s) ==
    IF s.rcr # 0 THEN s
    ELSE IF s.rncr = 0 THEN [s EXCEPT !.csr = @ \cup {"ENDRX", "RXBUFF"}]
    ELSE [s EXCEPT !.csr = @ \cup {"ENDRX"}, !.rcr = s.rncr, !.rncr = 0]
UpdregMut(s) ==
    IF s.rcr = 0 /\ s.rncr # 0
    THEN [s EXCEPT !.rpr = s.rnpr, !.rnpr = 0, !.rcr = s.rncr, !.rncr = 0]
    ELSE s
xfer_receiver_dma_updreg(s) ==
    IF s.rcr # 0 THEN s
    ELSE IF s.rncr = 0 THEN [s EXCEPT !.csr = @ \cup {"ENDRX", "RXBUFF"}]
    ELSE [s EXCEPT !.csr = @ \cup {"ENDRX"}, !.rpr = s.rnpr, !.rnpr = 0,
                   !.rcr = s.rncr, !.rncr = 0]

\* address_space_rw(.., addr, .., data, len, true): data[i] is stored at addr + i
MemWrite(mem, addr, data) ==
    mem \o [i \in 1 .. Len(data) |-> <<addr + i - 1, data[i]>>]

xfer_receiver_dma_rcr(s) ==
    LET len == IF Len(s.rcvbuf) < s.rcr THEN Len(s.rcvbuf) ELSE s.rcr
    IN  [s EXCEPT !.stored = MemWrite(@, s.rpr, SubSeq(s.rcvbuf, 1, len)),
                  !.rcvbuf = SubSeq(@, len + 1, Len(@)),
                  !.rpr = @ + len, !.rcr = @ - len]

xfer_receiver_dma_rhr(s) ==
    [s EXCEPT !.stored = MemWrite(@, s.rpr, <<s.rhr>>), !.rpr = @ + 1,
              !.rcr = (@ - 1) % CounterWidth, !.csr = @ \ {"RXRDY"}]

\* __xfer_receiver_dma: from RHR, then from the buffer to the current and to
\* the next DMA buffer
DmaBothFull(s) == IF s.rcr = 0 THEN [s EXCEPT !.csr = @ \cup {"ENDRX", "RXBUFF"}] ELSE s
DmaToNext(s) ==
    IF s.rcr = 0 \/ s.rcvbuf = <<>> THEN s ELSE DmaBothFull(xfer_receiver_dma_rcr(s))
DmaToCurrent(s) ==
    IF s.rcr = 0 \/ s.rcvbuf = <<>> THEN s
    ELSE DmaToNext(xfer_receiver_dma_updreg(xfer_receiver_dma_rcr(s)))
DmaFromRhr(s) ==
    IF "RXRDY" \in s.csr THEN xfer_receiver_dma_updreg(xfer_receiver_dma_rhr(s)) ELSE s
xfer_receiver_dma_run(s) == DmaToCurrent(DmaFromRhr(s))

DmaDisable(s) == IF s.rcr = 0 THEN [s EXCEPT !.rx_dma_enabled = FALSE] ELSE s
DmaOverflow(s) == IF s.rcr = 0 /\ s.rncr = 0 THEN xfer_receiver_next(s) ELSE s
xfer_receiver_dma(s) == DmaOverflow(DmaDisable(update_irq(xfer_receiver_dma_run(s))))

xfer_dma_rx_start(s) == xfer_receiver_dma([s EXCEPT !.rx_dma_enabled = TRUE])

xfer_dma_rx_stop(s) == [s EXCEPT !.rx_dma_enabled = FALSE]

\* ---- transmitter ----
iox_send_chars(s, data) == iox_send_data_multiframe_new(s, IOX_CAT_DATA, IOX_CID_DATA_OUT, data)

xfer_chr_transmit(s, chr) ==
    IF "TXRDY" \notin s.csr THEN s
    ELSE [iox_send_chars(s, <<chr>>) EXCEPT !.csr = @ \cup {"TXRDY", "TXEMPTY"}]

xfer_dma_tx_do_tcr(s) ==
    [iox_send_chars(s, [i \in 1 .. s.tcr |-> 0]) EXCEPT !.tcr = 0]

TxCurrent(s) == IF s.tcr # 0 THEN xfer_dma_tx_do_tcr(s) ELSE s
TxNext(s) ==
    IF s.tncr # 0 THEN xfer_dma_tx_do_tcr([s EXCEPT !.tcr = s.tncr, !.tncr = 0]) ELSE s
xfer_dma_tx_start(s) ==
    update_irq([TxNext(TxCurrent(s)) EXCEPT !.csr = @ \cup {"ENDTX", "TXBUFE"}])

xfer_dma_tx_stop(s) == s

\* ---- at91-pdc.h ----
\* PTSR after a write of value to PTCR
PtsrAfter(ptsr, value) ==
    LET rx == IF "RXTDIS" \in value THEN {} ELSE IF "RXTEN" \in value THEN {"RXTEN"}
              ELSE ptsr \cap {"RXTEN"}
        tx == IF "TXTDIS" \in value THEN {} ELSE IF "TXTEN" \in value THEN {"TXTEN"}
              ELSE ptsr \cap {"TXTEN"}
    IN  rx \cup tx

\* the device after the register is stored
at91_pdc_set_register(s, reg, value) ==
    CASE reg = "RPR" -> [s EXCEPT !.rpr = value]
      [] reg = "RCR" -> [s EXCEPT !.rcr = value]
      [] reg = "TCR" -> [s EXCEPT !.tcr = value]
      [] reg = "RNPR" -> [s EXCEPT !.rnpr = value]
      [] reg = "RNCR" -> [s EXCEPT !.rncr = value]
      [] reg = "TNCR" -> [s EXCEPT !.tncr = value]
      [] reg = "PTCR" -> [s EXCEPT !.ptsr = PtsrAfter(@, value)]

\* the action the write asks of the peripheral
at91_pdc_action(s, reg, value) ==
    CASE reg = "RCR" /\ "RXTEN" \in s.ptsr -> IF value # 0 THEN "START_RX" ELSE "STOP_RX"
      [] reg = "TCR" /\ "TXTEN" \in s.ptsr -> IF value # 0 THEN "START_TX" ELSE "STOP_TX"
      [] reg = "PTCR" -> "STATE"
      [] OTHER -> "NONE"

PdcEndMut(enabled, count) == count = 0
PdcEnd(enabled, count) == enabled /\ count = 0

\* the status flags after a write of value to a counter of the channel whose
\* enable bit, counters and flags are given
PdcFlags(csr, value, enabled, count, ncount, flag_end, flag_buf) ==
    ((IF value # 0 THEN csr \ {flag_end, flag_buf} ELSE csr)
        \cup (IF PdcEnd(enabled, count) THEN {flag_end} ELSE {}))
        \cup (IF PdcEnd(enabled, count) /\ ncount = 0 THEN {flag_buf} ELSE {})

PdcUpdateFlags(s, reg, value) ==
    IF reg \in {"RCR", "RNCR"}
    THEN update_irq([s EXCEPT !.csr = PdcFlags(@, value, "RXTEN" \in s.ptsr,
                                               s.rcr, s.rncr, "ENDRX", "RXBUFF")])
    ELSE IF reg \in {"TCR", "TNCR"}
    THEN update_irq([s EXCEPT !.csr = PdcFlags(@, value, "TXTEN" \in s.ptsr,
                                               s.tcr, s.tncr, "ENDTX", "TXBUFE")])
    ELSE s

PdcStateTx(s) == IF "TXTEN" \in s.ptsr THEN xfer_dma_tx_start(s) ELSE xfer_dma_tx_stop(s)
PdcStateRx(s) == IF "RXTEN" \in s.ptsr THEN xfer_dma_rx_start(s) ELSE xfer_dma_rx_stop(s)

PdcDispatch(s, action) ==
    CASE action = "NONE" -> s
      [] action = "STATE" -> PdcStateTx(PdcStateRx(s))
      [] action = "START_RX" -> xfer_dma_rx_start(s)
      [] action = "STOP_RX" -> xfer_dma_rx_stop(s)
      [] action = "START_TX" -> xfer_dma_tx_start(s)
      [] action = "STOP_TX" -> xfer_dma_tx_stop(s)

at91_pdc_generic_set_register(s, reg, value) ==
    PdcDispatch(PdcUpdateFlags(at91_pdc_set_register(s, reg, value), reg, value),
                at91_pdc_action(s, reg, value))

\* ---- IOX frames to the USART ----
ReceiveStart(s, in_progress) ==
    IF in_progress THEN s
    ELSE IF s.rx_dma_enabled THEN xfer_receiver_dma(s) ELSE xfer_receiver_next(s)

iox_receive_data(s, frame) ==
    IF ~s.rx_enabled THEN iox_send_u32_resp(s, frame, ENXIO)
    ELSE ReceiveStart(iox_send_u32_resp([s EXCEPT !.rcvbuf = @ \o frame.payload], frame, 0),
                      s.rcvbuf # <<>>)

iox_receive(s, frame) ==
    CASE frame.cat = IOX_CAT_DATA /\ frame.id = IOX_CID_DATA_IN -> iox_receive_data(s, frame)
      [] frame.cat = IOX_CAT_FAULT /\ frame.id = IOX_CID_FAULT_OVRE ->
           update_irq([s EXCEPT !.csr = @ \cup {"OVRE"}])
      [] OTHER -> s

\* ---- register file ----
\* the value a CSR read returns
CsrValue(s) == IF ~s.rx_enabled THEN s.csr \ {"RXRDY"} ELSE s.csr

\* the RHR case of usart_mmio_read, up to the value it returns (s.rhr after it)
RhrRead(s) == update_irq(xfer_receiver_next([s EXCEPT !.csr = @ \ {"RXRDY"}]))

\* the control bits of a CR write, in the order the handler tests them
CrBits == <<"RSTRX", "RSTTX", "RXEN", "RXDIS", "TXEN", "TXDIS", "RSTSTA">>
usart_cr_bit(s, bit) ==
    CASE bit = "RSTRX" -> update_irq([s EXCEPT !.rx_enabled = FALSE,
                                               !.csr = @ \ {"OVRE", "ENDRX", "RXBUFF"}])
      [] bit = "RSTTX" -> [s EXCEPT !.tx_enabled = FALSE,
                                    !.csr = @ \ {"TXRDY", "TXEMPTY", "ENDTX", "TXBUFE"}]
      [] bit = "RXEN" -> update_irq([s EXCEPT !.rx_enabled = TRUE])
      [] bit = "RXDIS" -> update_irq([s EXCEPT !.rx_enabled = FALSE])
      [] bit = "TXEN" -> [s EXCEPT !.tx_enabled = TRUE, !.csr = @ \cup {"TXRDY", "TXEMPTY"}]
      [] bit = "TXDIS" -> [s EXCEPT !.tx_enabled = FALSE, !.csr = @ \ {"TXRDY", "TXEMPTY"}]
      [] bit = "RSTSTA" -> update_irq([s EXCEPT !.csr = @ \ {"OVRE"}])

RECURSIVE usart_cr_bits(_, _, _)
usart_cr_bits(s, value, i) ==
    IF i > Len(CrBits) THEN s
    ELSE usart_cr_bits(IF CrBits[i] \in value THEN usart_cr_bit(s, CrBits[i]) ELSE s,
                       value, i + 1)

usart_write_CR(s, value) == update_irq(usart_cr_bits(s, value, 1))

at91_pdc_reset_registers(s) ==
    [s EXCEPT !.rpr = 0, !.rcr = 0, !.tcr = 0, !.rnpr = 0, !.rncr = 0, !.tncr = 0,
              !.ptsr = {}]

usart_reset_registers(s) ==
    at91_pdc_reset_registers([s EXCEPT !.rx_enabled = FALSE, !.tx_enabled = FALSE,
                                       !.imr = {}, !.rhr = 0])

UsartInit ==
    /\ usart = [rcvbuf |-> <<>>, csr |-> {}, rhr |-> 0, imr |-> {}, irq |-> FALSE,
                rx_enabled |-> FALSE, tx_enabled |-> FALSE, rx_dma_enabled |-> FALSE,
                rcr |-> 0, rncr |-> 0, tcr |-> 0, tncr |-> 0, ptsr |-> {},
                rpr |-> 0, rnpr |-> 0]
    /\ iox_req = <<>>
    /\ us_stored = <<>>
    /\ iox_sent = <<>>
    /\ cli_next = 1
    /\ pdc_rx_armed = <<>>
    /\ us_op = "other"
    /\ us_ret = 0

\* ---- inputs ----
CrRxVals == {{"RSTRX"}, {"RXEN"}, {"RXDIS"}, {"RSTSTA"}}
CrTxVals == {{"RSTTX"}, {"TXEN"}, {"TXDIS"}}
ImrVals == {{"ENDTX"}}
PtcrRxVals == {{"RXTEN"}, {"RXTDIS"}}
PtcrTxVals == {{"TXTEN"}, {"TXTDIS"}}
RxCountVals == 0 .. MaxCount
TxCountVals == 0 .. MaxTxCount
ThrVals == {7}
SeqIn == {0, 5}
PayloadLens == 0 .. MaxPayload

\* the bytes of the next frame of the client: it numbers the bytes it injects
ClientPayload(len) == [i \in 1 .. len |-> cli_next + i - 1]

\* at most MaxTx new transmissions are taken (seq is 0, then 129, 130, ...)
TxBudget(seq) == seq <= SeqOutBit + MaxTx

\* the handler's record: the device, its server, nothing sent yet
UsartState ==
    usart @@ [seq |-> srv_seq, client |-> srv_client # NULL, sent |-> <<>>,
              stored |-> <<>>]

UsartCommit(s, op, ret) ==
    /\ TxBudget(s.seq)
    /\ usart' = [f \in DOMAIN usart |-> s[f]]
    /\ srv_seq' = s.seq
    /\ iox_sent' = s.sent
    /\ us_stored' = s.stored
    /\ us_op' = op
    /\ us_ret' = ret
    /\ UNCHANGED <<srv_client, srv_listening>>

\* ---- history of an armed receive transfer ----
Armed(n) == <<n, FALSE>>
ArmedAfter(len) ==
    IF pdc_rx_armed = <<>> THEN <<>>
    ELSE <<IF pdc_rx_armed[1] > len THEN pdc_rx_armed[1] - len ELSE 0,
           pdc_rx_armed[2] \/ len > pdc_rx_armed[1]>>

\* ---- actions ----
UsartReceive(frame) ==
    /\ srv_client # NULL
    /\ UsartCommit(iox_receive(UsartState, frame), "other", 0)
    /\ iox_req' = <<frame>>

iox_receive_DATA_IN(seq, len) ==
    /\ cli_next + len <= MaxBytes + 1
    /\ UsartReceive(Frame(seq, IOX_CAT_DATA, IOX_CID_DATA_IN, ClientPayload(len)))
    /\ cli_next' = cli_next + len
    /\ pdc_rx_armed' = IF usart.rx_enabled THEN ArmedAfter(len) ELSE <<>>

iox_receive_FAULT(seq, id) ==
    /\ UsartReceive(Frame(seq, IOX_CAT_FAULT, id, <<>>))
    /\ UNCHANGED <<cli_next, pdc_rx_armed>>

usart_mmio_read_CSR ==
    /\ UsartCommit(UsartState, "other", 0)
    /\ UNCHANGED <<cli_next, pdc_rx_armed>>
    /\ iox_req' = <<>>

usart_mmio_read_RHR ==
    /\ LET s == RhrRead(UsartState) IN UsartCommit(s, "read_RHR", s.rhr)
    /\ UNCHANGED <<cli_next, pdc_rx_armed>>
    /\ iox_req' = <<>>

usart_mmio_write_CR(value) ==
    /\ UsartCommit(usart_write_CR(UsartState, value), "other", 0)
    /\ pdc_rx_armed' = IF value \cap {"RSTRX", "RXDIS"} # {} THEN <<>> ELSE pdc_rx_armed
    /\ UNCHANGED cli_next
    /\ iox_req' = <<>>

usart_mmio_write_IER(value) ==
    /\ UsartCommit(update_irq([UsartState EXCEPT !.imr = @ \cup value]), "other", 0)
    /\ UNCHANGED <<cli_next, pdc_rx_armed>>
    /\ iox_req' = <<>>

usart_mmio_write_IDR(value) ==
    /\ UsartCommit(update_irq([UsartState EXCEPT !.imr = @ \ value]), "other", 0)
    /\ UNCHANGED <<cli_next, pdc_rx_armed>>
    /\ iox_req' = <<>>

usart_mmio_write_THR(value) ==
    /\ UsartCommit(update_irq(xfer_chr_transmit(UsartState, value)), "other", 0)
    /\ UNCHANGED <<cli_next, pdc_rx_armed>>
    /\ iox_req' = <<>>

usart_mmio_write_PDC_count(reg, value) ==
    /\ UsartCommit(update_irq(at91_pdc_generic_set_register(UsartState, reg, value)),
                   reg, value)
    /\ pdc_rx_armed' =
           IF reg \in {"TCR", "TNCR"} THEN pdc_rx_armed
           ELSE IF reg = "RCR" /\ value > 0 /\ "RXTEN" \in usart.ptsr
                   /\ usart.rncr = 0 /\ usart.rx_enabled
                THEN Armed(value) ELSE <<>>
    /\ UNCHANGED cli_next
    /\ iox_req' = <<>>

\* a write to RPR or RNPR
usart_mmio_write_PDC_pointer(reg, value) ==
    /\ UsartCommit(update_irq(at91_pdc_generic_set_register(UsartState, reg, value)),
                   reg, value)
    /\ UNCHANGED <<cli_next, pdc_rx_armed>>
    /\ iox_req' = <<>>

usart_mmio_write_PDC_PTCR(value) ==
    /\ UsartCommit(update_irq(at91_pdc_generic_set_register(UsartState, "PTCR", value)),
                   "other", 0)
    /\ pdc_rx_armed' =
           IF "RXTEN" \in value /\ "RXTDIS" \notin value /\ "RXTEN" \notin usart.ptsr
              /\ usart.rcr \in 1 .. MaxCount /\ usart.rncr = 0 /\ usart.rx_enabled
           THEN Armed(usart.rcr) ELSE <<>>
    /\ UNCHANGED cli_next
    /\ iox_req' = <<>>

usart_device_reset ==
    /\ UsartCommit([usart_reset_registers(UsartState) EXCEPT !.rcvbuf = <<>>], "other", 0)
    /\ pdc_rx_armed' = <<>>
    /\ UNCHANGED cli_next
    /\ iox_req' = <<>>

\* the USART is not accessed while its server takes or loses the client
UsartIdle ==
    /\ iox_req' = <<>>
    /\ iox_sent' = <<>>
    /\ us_stored' = <<>>
    /\ us_op' = "other"
    /\ us_ret' = 0
    /\ UNCHANGED <<usart, srv_seq, cli_next, pdc_rx_armed>>

\* Firmware drives one direction of the channel at a time: it programs the
\* receiver while the transmitter is as constructed, and the transmitter
\* while the receiver is.
RxFlags == {"RXRDY", "OVRE", "ENDRX", "RXBUFF"}
TxFlags == {"TXRDY", "TXEMPTY", "ENDTX", "TXBUFE"}
RxQuiet ==
    /\ usart.rcvbuf = <<>> /\ usart.rhr = 0 /\ usart.csr \cap RxFlags = {}
    /\ ~usart.rx_enabled /\ ~usart.rx_dma_enabled
    /\ usart.rcr = 0 /\ usart.rncr = 0 /\ "RXTEN" \notin usart.ptsr
TxQuiet ==
    /\ usart.csr \cap TxFlags = {} /\ ~usart.tx_enabled /\ usart.imr = {}
    /\ usart.tcr = 0 /\ usart.tncr = 0 /\ "TXTEN" \notin usart.ptsr
    /\ srv_seq = 0

UsartStep ==
    \/ \E seq \in SeqIn, len \in PayloadLens : iox_receive_DATA_IN(seq, len) /\ UNCHANGED otherThanUsart
    \/ \E seq \in SeqIn : iox_receive_FAULT(seq, IOX_CID_FAULT_OVRE) /\ UNCHANGED otherThanUsart
    \/ usart_mmio_read_CSR /\ UNCHANGED otherThanUsart
    \/ usart_mmio_read_RHR /\ UNCHANGED otherThanUsart
    \/ \E value \in CrRxVals : TxQuiet /\ usart_mmio_write_CR(value) /\ UNCHANGED otherThanUsart
    \/ \E value \in CrTxVals : RxQuiet /\ usart_mmio_write_CR(value) /\ UNCHANGED otherThanUsart
    \/ \E value \in ImrVals : RxQuiet /\ usart_mmio_write_IER(value) /\ UNCHANGED otherThanUsart
    \/ \E value \in ImrVals : RxQuiet /\ usart_mmio_write_IDR(value) /\ UNCHANGED otherThanUsart
    \/ \E value \in ThrVals : RxQuiet /\ usart_mmio_write_THR(value) /\ UNCHANGED otherThanUsart
    \/ \E value \in RxCountVals : TxQuiet /\ usart_mmio_write_PDC_count("RCR", value) /\ UNCHANGED otherThanUsart
    \/ \E value \in RxCountVals : TxQuiet /\ usart_mmio_write_PDC_count("RNCR", value) /\ UNCHANGED otherThanUsart
    \/ \E value \in TxCountVals : RxQuiet /\ usart_mmio_write_PDC_count("TCR", value) /\ UNCHANGED otherThanUsart
    \/ \E value \in TxCountVals : RxQuiet /\ usart_mmio_write_PDC_count("TNCR", value) /\ UNCHANGED otherThanUsart
    \/ \E value \in PtcrRxVals : TxQuiet /\ usart_mmio_write_PDC_PTCR(value) /\ UNCHANGED otherThanUsart
    \/ \E value \in PtcrTxVals : RxQuiet /\ usart_mmio_write_PDC_PTCR(value) /\ UNCHANGED otherThanUsart
    \/ usart_device_reset /\ UNCHANGED otherThanUsart
    \/ srv_client = NULL /\ SrvCommit(ListenerConnect(Server, 1)) /\ UsartIdle /\ UNCHANGED otherThanUsart
    \/ srv_client # NULL /\ SrvCommit(client_hup(Server)) /\ UsartIdle /\ UNCHANGED otherThanUsart

\* The receiver alone, with its interrupt enabled or not: the steps of a
\* reception, the transmitter left as constructed.
UsartRxImrVals == {{"RXRDY"}}
\* the two receive buffers firmware hands to the PDC
RprVals == {16}
RnprVals == {32}

UsartRxStep ==
    \/ \E seq \in SeqIn, len \in PayloadLens : iox_receive_DATA_IN(seq, len) /\ UNCHANGED otherThanUsart
    \/ usart_mmio_read_CSR /\ UNCHANGED otherThanUsart
    \/ usart_mmio_read_RHR /\ UNCHANGED otherThanUsart
    \/ \E value \in CrRxVals : usart_mmio_write_CR(value) /\ UNCHANGED otherThanUsart
    \/ \E value \in UsartRxImrVals : usart_mmio_write_IER(value) /\ UNCHANGED otherThanUsart
    \/ \E value \in UsartRxImrVals : usart_mmio_write_IDR(value) /\ UNCHANGED otherThanUsart
    \/ \E value \in RxCountVals : usart_mmio_write_PDC_count("RCR", value) /\ UNCHANGED otherThanUsart
    \/ \E value \in RxCountVals : usart_mmio_write_PDC_count("RNCR", value) /\ UNCHANGED otherThanUsart
    \/ \E value \in PtcrRxVals : usart_mmio_write_PDC_PTCR(value) /\ UNCHANGED otherThanUsart
    \/ usart_device_reset /\ UNCHANGED otherThanUsart
    \/ srv_client = NULL /\ SrvCommit(ListenerConnect(Server, 1)) /\ UsartIdle /\ UNCHANGED otherThanUsart

\* the receive PDC with its two buffers: firmware enables the receiver,
\* programs pointers and counters and switches the channel on and off while
\* the client injects bytes
UsartPdcStep ==
    \/ \E seq \in SeqIn, len \in PayloadLens : iox_receive_DATA_IN(seq, len) /\ UNCHANGED otherThanUsart
    \/ usart_mmio_read_RHR /\ UNCHANGED otherThanUsart
    \/ usart_mmio_write_CR({"RXEN"}) /\ UNCHANGED otherThanUsart
    \/ \E value \in RxCountVals : usart_mmio_write_PDC_count("RCR", value) /\ UNCHANGED otherThanUsart
    \/ \E value \in RxCountVals : usart_mmio_write_PDC_count("RNCR", value) /\ UNCHANGED otherThanUsart
    \/ \E value \in RprVals : usart_mmio_write_PDC_pointer("RPR", value) /\ UNCHANGED otherThanUsart
    \/ \E value \in RnprVals : usart_mmio_write_PDC_pointer("RNPR", value) /\ UNCHANGED otherThanUsart
    \/ \E value \in PtcrRxVals : usart_mmio_write_PDC_PTCR(value) /\ UNCHANGED otherThanUsart
    \/ srv_client = NULL /\ SrvCommit(ListenerConnect(Server, 1)) /\ UsartIdle /\ UNCHANGED otherThanUsart

(***************************************************************************)
(* A transmission through iox_send_data_multiframe, as a peripheral with   *)
(* an attached client makes it: the data is DataOf(len), bytes that count  *)
(* up from 1 and wrap with the width of a byte.                            *)
(***************************************************************************)
ByteWidth == 256
DataOf(len) == [i \in 1 .. len |-> i % ByteWidth]
MultiSeqs == {SeqOutBit + 1}

MultiInit ==
    /\ mf_call = <<>>
    /\ mf_sent = <<>>

iox_send_data_multiframe_call(seq, cat, id, data) ==
    /\ mf_call = <<>>
    /\ mf_call' = <<Frame(seq, cat, id, data)>>
    /\ mf_sent' = iox_send_data_multiframe([client |-> TRUE, sent |-> <<>>],
                                           seq, cat, id, data).sent

\* the call has returned
iox_send_data_multiframe_return ==
    /\ mf_call # <<>>
    /\ mf_call' = <<>>
    /\ mf_sent' = <<>>

MultiStep ==
    \/ \E seq \in MultiSeqs, len \in 0 .. MaxData :
          iox_send_data_multiframe_call(seq, IOX_CAT_DATA, IOX_CID_DATA_OUT, DataOf(len))
          /\ UNCHANGED otherThanMf
    \/ iox_send_data_multiframe_return /\ UNCHANGED otherThanMf

(***************************************************************************)
(*                              S P I                                      *)
(*                                                                         *)
(* The handlers of at91-spi.c as functions on a record s, as for the       *)
(* USART.  Fields of s:                                                    *)
(*   mr          [mstr, ps, pcsdec, pcs]: the fields of SPI_MR             *)
(*   csr         [0 .. 3 -> the BITS field of SPI_CSRn]                    *)
(*   sr, imr     sets of flag names                                        *)
(*   rdr, tdr, serializer                                                  *)
(*   rcvbuf      the bytes of rcvbuf; a transfer unit is four of them      *)
(*   wait_ty, wait_n   wait_rcv                                            *)
(*   paused      the CPUs are paused (pause_all_vcpus)                     *)
(*   irq, abort  the interrupt line; the emulator has aborted              *)
(*   seq, client, sent   the IoXferServer of the SPI                       *)
(* The PDC channel of the SPI is left as constructed (no DMA transfer is   *)
(* started), so dma_rx_enabled stays false.                                *)
(***************************************************************************)
UnitSize == 4
HalfWord == 65536
SerializerWidth == 1048576

SpiAbort(s) == [s EXCEPT !.abort = TRUE]

pcs_to_nr_nopcsdec(pcs) ==
    IF pcs % 2 = 0 THEN 0
    ELSE IF pcs % 4 = 1 THEN 4
    ELSE IF pcs % 8 = 3 THEN 8
    ELSE IF pcs % 16 = 7 THEN 12
    ELSE -1

pcs_to_nr(s, pcs) ==
    IF ~s.mr.mstr THEN 15 ELSE IF s.mr.pcsdec THEN pcs ELSE pcs_to_nr_nopcsdec(pcs)

pcnr_to_cs(s, pcnr) ==
    IF ~s.mr.mstr THEN 0 ELSE IF s.mr.pcsdec THEN pcnr ELSE 255 - (pcnr + 1)

num_transmit_bits(s, pcnr) == s.csr[pcnr \div 4] + 8

\* to_xfer_unit, as the four bytes the (little-endian) host stores
to_xfer_unit(pcnr, bits, data) == <<data % 256, data \div 256, bits - 8, pcnr>>

\* ((uint32_t *)rcvbuf.buffer)[i], as [pcnr, bits, data] of xfer_master_unit_to_tdr
UnitAt(rcvbuf, i) ==
    [pcnr |-> rcvbuf[UnitSize * i + 4] % 16,
     bits |-> rcvbuf[UnitSize * i + 3] + 8,
     data |-> rcvbuf[UnitSize * i + 1] + 256 * rcvbuf[UnitSize * i + 2]]

UnitValid(s, unit) ==
    /\ num_transmit_bits(s, unit.pcnr) <= 16
    /\ num_transmit_bits(s, unit.pcnr) = unit.bits

TwoTo(bits) == IF bits = 0 THEN 1 ELSE 2 ^ bits

xfer_master_unit_to_tdr(s, unit) ==
    pcnr_to_cs(s, unit.pcnr) * HalfWord + (unit.data % TwoTo(unit.bits))

spi_update_irq(s) == [s EXCEPT !.irq = (s.sr \cap s.imr) # {}]

ReadIndex(s) == s.wait_n - 1

xfer_master_read_to_tdr(s) ==
    IF ~UnitValid(s, UnitAt(s.rcvbuf, ReadIndex(s))) THEN SpiAbort(s)
    ELSE [s EXCEPT !.serializer = xfer_master_unit_to_tdr(s, UnitAt(s.rcvbuf, ReadIndex(s)))
                                      % SerializerWidth,
                   !.rdr = xfer_master_unit_to_tdr(s, UnitAt(s.rcvbuf, ReadIndex(s))),
                   !.sr = @ \cup {"RDRF"}]

xfer_transmit_tdr_master_finish(s) ==
    spi_update_irq([s EXCEPT !.sr = @ \cup {"TDRE", "TXEMPTY"}])

WaitOverrun(s) == IF "RDRF" \in s.sr THEN [s EXCEPT !.sr = @ \cup {"OVRES"}] ELSE s
WaitDone(s) ==
    IF s.abort THEN s
    ELSE spi_update_irq([xfer_transmit_tdr_master_finish(s) EXCEPT
                            !.wait_ty = "NONE", !.wait_n = 0, !.paused = FALSE])

xfer_master_wait_receive_finish(s) == WaitDone(xfer_master_read_to_tdr(WaitOverrun(s)))

WaitStart(s) == [s EXCEPT !.wait_n = 1, !.wait_ty = "TDR", !.paused = TRUE]
xfer_master_wait_receive_start_tdr(s) ==
    IF ~s.client THEN xfer_master_wait_receive_finish(WaitStart(s)) ELSE WaitStart(s)

iox_transmit_units(s, units) ==
    IF s.abort THEN s
    ELSE iox_send_data_multiframe_new(s, IOX_CAT_DATA, IOX_CID_DATA_OUT, units)

\* the master branch of xfer_transmit_tdr for the unit it has built
TransmitUnit(s, unit) ==
    iox_transmit_units(
        xfer_master_wait_receive_start_tdr(
            [s EXCEPT !.serializer = s.tdr,
                      !.rcvbuf = IF s.client THEN @ ELSE @ \o unit]),
        unit)

TransmitMaster(s, pcnr) ==
    IF pcnr < 0 \/ num_transmit_bits(s, pcnr) > 16 THEN SpiAbort(s)
    ELSE TransmitUnit(s, to_xfer_unit(pcnr, num_transmit_bits(s, pcnr),
                                      s.tdr % TwoTo(num_transmit_bits(s, pcnr))))

TransmitSlave(s) ==
    IF "TXEMPTY" \in s.sr
    THEN [s EXCEPT !.sr = @ \ {"TDRE", "TXEMPTY"}, !.serializer = s.tdr]
    ELSE [s EXCEPT !.sr = @ \ {"TDRE"}]

xfer_transmit_tdr(s) ==
    IF s.mr.mstr
    THEN TransmitMaster(s, pcs_to_nr(s, (IF s.mr.ps THEN s.tdr \div HalfWord ELSE s.mr.pcs) % 16))
    ELSE TransmitSlave(s)

ReceiveDone(s) == [xfer_master_wait_receive_finish(s) EXCEPT !.rcvbuf = <<>>]

spi_iox_receive_data(s, frame) ==
    IF s.wait_ty = "NONE" THEN s
    ELSE IF Len(s.rcvbuf) + Len(frame.payload) >= s.wait_n * UnitSize
    THEN ReceiveDone([s EXCEPT !.rcvbuf = @ \o frame.payload])
    ELSE [s EXCEPT !.rcvbuf = @ \o frame.payload]

IOX_CID_FAULT_MODF == 1
IOX_CID_FAULT_OVRES == 2

spi_iox_receive(s, frame) ==
    CASE frame.cat = IOX_CAT_DATA /\ frame.id = IOX_CID_DATA_IN -> spi_iox_receive_data(s, frame)
      [] frame.cat = IOX_CAT_FAULT /\ frame.id = IOX_CID_FAULT_MODF ->
             spi_update_irq([s EXCEPT !.sr = @ \cup {"MODF"}])
      [] frame.cat = IOX_CAT_FAULT /\ frame.id = IOX_CID_FAULT_OVRES ->
             spi_update_irq([s EXCEPT !.sr = @ \cup {"OVRES"}])
      [] OTHER -> s

SpiSwrst(s) ==
    [s EXCEPT !.mr = [mstr |-> FALSE, ps |-> FALSE, pcsdec |-> FALSE, pcs |-> 0],
              !.rdr = 0, !.tdr = 0, !.imr = {}, !.csr = [n \in 0 .. 3 |-> 0],
              !.sr = {"RXBUFF", "TXBUFE"} \cup (@ \cap {"ENDRX", "ENDTX"}),
              !.serializer = 0]
SpiEnable(s, value) ==
    IF "SPIEN" \in value /\ "SPIDIS" \notin value
    THEN [s EXCEPT !.sr = @ \cup {"SPIENS", "TDRE", "TXEMPTY"}] ELSE s
SpiDisable(s, value) ==
    IF "SPIDIS" \in value THEN [s EXCEPT !.sr = @ \ {"SPIENS", "TDRE", "TXEMPTY"}] ELSE s
SpiReset(s, value) == IF "SWRST" \in value THEN SpiSwrst(s) ELSE s

spi_write_CR(s, value) == spi_update_irq(SpiReset(SpiDisable(SpiEnable(s, value), value), value))

spi_reset_registers(s) ==
    [s EXCEPT !.mr = [mstr |-> FALSE, ps |-> FALSE, pcsdec |-> FALSE, pcs |-> 0],
              !.rdr = 0, !.tdr = 0, !.imr = {}, !.csr = [n \in 0 .. 3 |-> 0],
              !.sr = {"ENDRX", "ENDTX", "RXBUFF", "TXBUFE"},
              !.serializer = 0]

SpiInit ==
    /\ spi = [mr |-> [mstr |-> FALSE, ps |-> FALSE, pcsdec |-> FALSE, pcs |-> 0],
              csr |-> [n \in 0 .. 3 |-> 0],
              sr |-> {"ENDRX", "ENDTX", "RXBUFF", "TXBUFE"}, imr |-> {},
              rdr |-> 0, tdr |-> 0, serializer |-> 0, rcvbuf |-> <<>>,
              wait_ty |-> "NONE", wait_n |-> 0, paused |-> FALSE,
              irq |-> FALSE, abort |-> FALSE,
              seq |-> 0, client |-> FALSE]
    /\ spi_sent = <<>>
    /\ spi_op = "other"
    /\ spi_ret = 0
    /\ spi_got = <<>>

\* ---- inputs ----
\* master mode with fixed peripheral select of NPCS0, and slave mode
SpiMrVals == {[mstr |-> TRUE, ps |-> FALSE, pcsdec |-> FALSE, pcs |-> 14],
              [mstr |-> FALSE, ps |-> FALSE, pcsdec |-> FALSE, pcs |-> 0]}
\* BITS of CSR0: 8 and 16 bits per transfer
SpiCsrVals == {0, 8}
SpiTdrVals == {165, 60}
SpiCrVals == {{"SPIEN"}, {"SWRST"}}
SpiImrVals == {{"RDRF"}}
SpiFaults == {IOX_CID_FAULT_MODF}
\* what a client sends in one DATA_IN frame: nothing, one byte, the unit of
\* 8 bits on NPCS0 with data 17, and that unit followed by a second one
SpiPayloads == {<<>>, <<17>>, to_xfer_unit(0, 8, 17),
                to_xfer_unit(0, 8, 17) \o to_xfer_unit(0, 8, 34)}

SpiState == spi @@ [sent |-> <<>>]

SpiCommit(s, op, ret) ==
    /\ ~spi.abort
    /\ s.seq <= SeqOutBit + MaxSpiTx
    /\ spi' = [f \in DOMAIN spi |-> s[f]]
    /\ spi_sent' = s.sent
    /\ spi_op' = op
    /\ spi_ret' = ret

\* firmware runs only while the CPUs are not paused
SpiMmio(s, op, ret) == ~spi.paused /\ SpiCommit(s, op, ret) /\ spi_got' = <<>>

\* ---- actions ----
spi_mmio_read_RDR == SpiMmio([SpiState EXCEPT !.sr = @ \ {"RDRF"}], "read_RDR", spi.rdr)

spi_mmio_read_SR ==
    SpiMmio(spi_update_irq([SpiState EXCEPT !.sr = @ \ {"MODF", "OVRES", "NSSR"}]), "other", 0)

spi_mmio_write_CR(value) == SpiMmio(spi_write_CR(SpiState, value), "other", 0)

spi_mmio_write_MR(value) == SpiMmio([SpiState EXCEPT !.mr = value], "other", 0)

spi_mmio_write_TDR(value) ==
    SpiMmio(xfer_transmit_tdr([SpiState EXCEPT !.tdr = value]), "write_TDR", 0)

spi_mmio_write_IER(value) ==
    SpiMmio(spi_update_irq([SpiState EXCEPT !.imr = @ \cup value]), "other", 0)

spi_mmio_write_IDR(value) ==
    SpiMmio(spi_update_irq([SpiState EXCEPT !.imr = @ \ value]), "other", 0)

spi_mmio_write_CSR(n, value) == SpiMmio([SpiState EXCEPT !.csr[n] = value], "other", 0)

spi_iox_receive_frame(frame) ==
    /\ spi.client
    /\ SpiCommit(spi_iox_receive(SpiState, frame),
                 IF frame.cat = IOX_CAT_DATA THEN "receive" ELSE "other", 0)
    /\ spi_got' = IF spi.wait_ty = "NONE" THEN <<>> ELSE spi_got \o frame.payload

spi_server_accept ==
    /\ ~spi.client
    /\ SpiCommit([SpiState EXCEPT !.client = TRUE], "other", 0)
    /\ UNCHANGED spi_got

spi_client_hup ==
    /\ spi.client
    /\ SpiCommit([SpiState EXCEPT !.client = FALSE], "other", 0)
    /\ UNCHANGED spi_got

spi_device_reset ==
    /\ SpiCommit(spi_reset_registers(SpiState), "other", 0)
    /\ UNCHANGED spi_got

SpiStep ==
    \/ spi_mmio_read_RDR /\ UNCHANGED otherThanSpi
    \/ spi_mmio_read_SR /\ UNCHANGED otherThanSpi
    \/ \E value \in SpiCrVals : spi_mmio_write_CR(value) /\ UNCHANGED otherThanSpi
    \/ \E value \in SpiMrVals : spi_mmio_write_MR(value) /\ UNCHANGED otherThanSpi
    \/ \E value \in SpiTdrVals : spi_mmio_write_TDR(value) /\ UNCHANGED otherThanSpi
    \/ \E value \in SpiImrVals : spi_mmio_write_IER(value) /\ UNCHANGED otherThanSpi
    \/ \E value \in SpiImrVals : spi_mmio_write_IDR(value) /\ UNCHANGED otherThanSpi
    \/ \E value \in SpiCsrVals : spi_mmio_write_CSR(0, value) /\ UNCHANGED otherThanSpi
    \/ \E payload \in SpiPayloads :
           spi_iox_receive_frame(Frame(0, IOX_CAT_DATA, IOX_CID_DATA_IN, payload))
           /\ UNCHANGED otherThanSpi
    \/ \E id \in SpiFaults :
           spi_iox_receive_frame(Frame(0, IOX_CAT_FAULT, id, <<>>)) /\ UNCHANGED otherThanSpi
    \/ spi_server_accept /\ UNCHANGED otherThanSpi
    \/ spi_client_hup /\ UNCHANGED otherThanSpi
    \/ spi_device_reset /\ UNCHANGED otherThanSpi

(***************************************************************************)
(*                              T W I                                      *)
(*                                                                         *)
(* The handlers of the TWI (at91-twi.c, found in at91-dbgu.h from line     *)
(* 670) as functions on a record s.  Fields of s:                          *)
(*   mode        "OFFLINE", "MASTER" or "SLAVE"                            *)
(*   mmr         [dadr, mread, iadrsz]: the fields of TWI_MMR              *)
(*   iadr, sr, imr, rhr                                                    *)
(*   rcvbuf, sendbuf                                                       *)
(*   timer       ticks left on chrtx_timer, 0 when it is stopped           *)
(*   irq, abort                                                            *)
(*   tcr, tncr, ptsr     the transmit counters and the status of the PDC   *)
(*   seq, client, sent   the IoXferServer of the TWI                       *)
(* The receive channel of the PDC is left as constructed, so               *)
(* dma_rx_enabled stays false.  The transmit channel is programmed in the  *)
(* specification SpecTwiPdc only; the guest memory it loads from reads as  *)
(* 0.                                                                      *)
(***************************************************************************)
IOX_CID_CTRL_START == 3
IOX_CID_CTRL_STOP == 4
IOX_CID_FAULT_NACK == 2
IOX_CID_FAULT_ARBLST == 3
\* load-to-shift, send shift
ChrTxLimit == 2
MreadBit == 128

iox_send_data_new(s, cat, id, data) ==
    iox_send_data(iox_next_seqid(s), NextSeq(s.seq), cat, id, data)

iox_send_command_new(s, cat, id) ==
    iox_send_frame(iox_next_seqid(s), Frame(NextSeq(s.seq), cat, id, <<>>))

twi_update_irq(s) == [s EXCEPT !.irq = (s.sr \cap s.imr) # {}]

\* struct start_frame
StartFrame(s) ==
    <<s.mmr.dadr + (IF s.mmr.mread THEN MreadBit ELSE 0), s.mmr.iadrsz,
      s.iadr % ByteWidth, (s.iadr \div ByteWidth) % ByteWidth,
      (s.iadr \div (ByteWidth * ByteWidth)) % ByteWidth>>

xfer_send_frame_start(s) ==
    iox_send_data_new(s, IOX_CAT_DATA, IOX_CID_CTRL_START, StartFrame(s))

xfer_send_frame_stop(s) == iox_send_command_new(s, IOX_CAT_DATA, IOX_CID_CTRL_STOP)

twi_iox_send_chars(s, data) ==
    iox_send_data_multiframe_new(s, IOX_CAT_DATA, IOX_CID_DATA_OUT, data)

TickKeepsMut(s) ==
    twi_update_irq(
        [xfer_send_frame_stop(twi_iox_send_chars(xfer_send_frame_start(s), s.sendbuf))
            EXCEPT !.timer = 0, !.sr = @ \cup {"TXCOMP"}])

xfer_chrtx_timer_tick(s) ==
    twi_update_irq(
        [xfer_send_frame_stop(twi_iox_send_chars(xfer_send_frame_start(s), s.sendbuf))
            EXCEPT !.sendbuf = <<>>, !.timer = 0, !.sr = @ \cup {"TXCOMP"}])

twi_xfer_chr_transmit(s, value) ==
    twi_update_irq([s EXCEPT !.sendbuf = Append(@, value % ByteWidth),
                             !.timer = ChrTxLimit,
                             !.sr = @ \cup {"TXRDY"}])

\* ---- transmit channel of the PDC ----
twi_xfer_dma_tx_do_tcr(s) ==
    [twi_iox_send_chars(s, [i \in 1 .. s.tcr |-> 0]) EXCEPT !.tcr = 0]

TwiTxNext2(s) ==
    IF s.tncr # 0 THEN twi_xfer_dma_tx_do_tcr([s EXCEPT !.tcr = s.tncr, !.tncr = 0]) ELSE s

twi_xfer_dma_tx_start(s) ==
    IF s.tcr = 0 THEN s
    ELSE twi_update_irq(
             [xfer_send_frame_stop(TwiTxNext2(twi_xfer_dma_tx_do_tcr(
                  xfer_send_frame_start(s))))
                 EXCEPT !.sr = @ \cup {"ENDTX", "TXBUFE", "TXCOMP", "TXRDY"}])

\* at91_pdc_generic_set_register for TCR, TNCR and PTCR with the ops of the
\* TWI; RXTEN is never set, so that a PTCR write stops the receive channel
\* (dma_rx_enabled stays false) and starts or stops the transmit channel
twi_pdc_set_register(s, reg, value) ==
    CASE reg = "TCR" -> [s EXCEPT !.tcr = value]
      [] reg = "TNCR" -> [s EXCEPT !.tncr = value]
      [] reg = "PTCR" -> [s EXCEPT !.ptsr = PtsrAfter(@, value)]

TwiPdcUpdateFlags(s, reg, value) ==
    IF reg \in {"TCR", "TNCR"}
    THEN twi_update_irq([s EXCEPT !.sr = PdcFlags(@, value, "TXTEN" \in s.ptsr,
                                                  s.tcr, s.tncr, "ENDTX", "TXBUFE")])
    ELSE s

TwiPdcDispatch(s, reg, value) ==
    CASE reg = "TCR" /\ "TXTEN" \in s.ptsr /\ value # 0 -> twi_xfer_dma_tx_start(s)
      [] reg = "PTCR" /\ "TXTEN" \in s.ptsr -> twi_xfer_dma_tx_start(s)
      [] OTHER -> s

twi_write_PDC(s, reg, value) ==
    twi_update_irq(TwiPdcDispatch(TwiPdcUpdateFlags(twi_pdc_set_register(s, reg, value),
                                                    reg, value), reg, value))

twi_xfer_chr_receive(s, chr) ==
    twi_update_irq([s EXCEPT !.sr = (IF "RXRDY" \in @ THEN @ \cup {"OVRE"} ELSE @)
                                        \cup {"RXRDY"},
                             !.rhr = chr])

twi_xfer_receiver_next(s) ==
    IF s.rcvbuf = <<>> \/ "RXRDY" \in s.sr THEN s
    ELSE twi_xfer_chr_receive([s EXCEPT !.rcvbuf = Tail(@)], Head(s.rcvbuf))

TwiReceiveStart(s, in_progress) == IF in_progress THEN s ELSE twi_xfer_receiver_next(s)

twi_iox_receive_data(s, frame) ==
    TwiReceiveStart(iox_send_u32_resp([s EXCEPT !.rcvbuf = @ \o frame.payload], frame, 0),
                    s.rcvbuf # <<>>)

twi_iox_receive(s, frame) ==
    CASE frame.cat = IOX_CAT_DATA /\ frame.id = IOX_CID_DATA_IN -> twi_iox_receive_data(s, frame)
      [] frame.cat = IOX_CAT_FAULT /\ frame.id = IOX_CID_FAULT_OVRE ->
             [s EXCEPT !.sr = @ \cup {"OVRE"}]
      [] frame.cat = IOX_CAT_FAULT /\ frame.id = IOX_CID_FAULT_NACK ->
             [s EXCEPT !.sr = @ \cup {"NACK", "TXCOMP"}]
      [] frame.cat = IOX_CAT_FAULT /\ frame.id = IOX_CID_FAULT_ARBLST ->
             [s EXCEPT !.sr = @ \cup {"ARBLST", "TXCOMP"}]
      [] OTHER -> s

TwiCrStart(s, value) == IF "START" \in value THEN xfer_send_frame_start(s) ELSE s
TwiCrStop(s, value) == IF "STOP" \in value THEN xfer_send_frame_stop(s) ELSE s
TwiCrMsen(s, value) ==
    IF "MSEN" \in value /\ "MSDIS" \notin value
    THEN IF s.mode = "OFFLINE" \/ ("TXCOMP" \in s.sr /\ s.mode = "SLAVE")
         THEN twi_update_irq([s EXCEPT !.mode = "MASTER", !.sr = @ \cup {"TXRDY"}])
         ELSE IF s.mode = "SLAVE" THEN [s EXCEPT !.abort = TRUE] ELSE s
    ELSE s
TwiCrMsdis(s, value) ==
    IF ~s.abort /\ "MSDIS" \in value /\ s.mode = "MASTER"
    THEN [s EXCEPT !.mode = "OFFLINE"] ELSE s
TwiCrSven(s, value) ==
    IF ~s.abort /\ "SVEN" \in value /\ "SVDIS" \notin value
    THEN IF s.mode = "OFFLINE" \/ ("TXCOMP" \in s.sr /\ s.mode = "MASTER")
         THEN [s EXCEPT !.mode = "SLAVE"]
         ELSE IF s.mode = "MASTER" THEN [s EXCEPT !.abort = TRUE] ELSE s
    ELSE s
TwiCrSvdis(s, value) ==
    IF ~s.abort /\ "SVDIS" \in value /\ s.mode = "SLAVE"
    THEN [s EXCEPT !.mode = "OFFLINE"] ELSE s

twi_write_CR(s, value) ==
    TwiCrSvdis(TwiCrSven(TwiCrMsdis(TwiCrMsen(TwiCrStop(TwiCrStart(s, value), value),
                                              value), value), value), value)

twi_reset_registers(s) ==
    [s EXCEPT !.mode = "OFFLINE",
              !.mmr = [dadr |-> 0, mread |-> FALSE, iadrsz |-> 0],
              !.iadr = 0,
              !.sr = {"TXCOMP", "SVREAD", "ENDRX", "ENDTX", "RXBUFF", "TXBUFE"},
              !.imr = {}, !.rhr = 0]

\* chrtx_timer counts one period down and calls its handler when it expires
ptimer_tick(s) ==
    IF s.timer = 1 THEN xfer_chrtx_timer_tick(s) ELSE [s EXCEPT !.timer = @ - 1]

TwiInit ==
    /\ twi = [mode |-> "OFFLINE", mmr |-> [dadr |-> 0, mread |-> FALSE, iadrsz |-> 0],
              iadr |-> 0,
              sr |-> {"TXCOMP", "SVREAD", "ENDRX", "ENDTX", "RXBUFF", "TXBUFE"},
              imr |-> {}, rhr |-> 0, rcvbuf |-> <<>>, sendbuf |-> <<>>, timer |-> 0,
              irq |-> FALSE, abort |-> FALSE, tcr |-> 0, tncr |-> 0, ptsr |-> {},
              seq |-> 0, client |-> FALSE]
    /\ twi_sent = <<>>
    /\ twi_op = "other"
    /\ twi_ret = 0
    /\ twi_thr = <<>>
    /\ twi_next = 1

\* ---- inputs ----
TwiCrVals == {{"MSEN"}, {"MSDIS"}, {"START"}, {"STOP"}}
\* a write to the device with address 0x50, one internal address byte
TwiMmrVals == {[dadr |-> 80, mread |-> FALSE, iadrsz |-> 1]}
TwiThrVals == {165, 60}
TwiImrVals == {{"RXRDY"}}
TwiFaults == {IOX_CID_FAULT_NACK}
TwiPayloadLens == {1, 2}

TwiState == twi @@ [sent |-> <<>>]

TwiCommit(s, op, ret) ==
    /\ ~twi.abort
    /\ s.seq <= SeqOutBit + MaxTwiTx
    /\ twi' = [f \in DOMAIN twi |-> s[f]]
    /\ twi_sent' = s.sent
    /\ twi_op' = op
    /\ twi_ret' = ret

\* ---- actions ----
twi_mmio_read_SR ==
    /\ TwiCommit(twi_update_irq([TwiState EXCEPT
                     !.sr = @ \ {"GACC", "OVRE", "NACK", "ARBLST", "EOSACC"}]), "other", 0)
    /\ UNCHANGED <<twi_thr, twi_next>>

twi_mmio_read_RHR ==
    /\ TwiCommit(twi_update_irq([TwiState EXCEPT !.sr = @ \ {"RXRDY"}]), "read_RHR", twi.rhr)
    /\ UNCHANGED <<twi_thr, twi_next>>

twi_mmio_write_CR(value) ==
    /\ TwiCommit(twi_write_CR(TwiState, value), "other", 0)
    /\ UNCHANGED <<twi_thr, twi_next>>

twi_mmio_write_MMR(value) ==
    /\ TwiCommit([TwiState EXCEPT !.mmr = value], "other", 0)
    /\ UNCHANGED <<twi_thr, twi_next>>

twi_mmio_write_IER(value) ==
    /\ TwiCommit(twi_update_irq([TwiState EXCEPT !.imr = @ \cup value]), "other", 0)
    /\ UNCHANGED <<twi_thr, twi_next>>

twi_mmio_write_IDR(value) ==
    /\ TwiCommit(twi_update_irq([TwiState EXCEPT !.imr = @ \ value]), "other", 0)
    /\ UNCHANGED <<twi_thr, twi_next>>

twi_mmio_write_THR(value) ==
    /\ Len(twi.sendbuf) < MaxThr
    /\ TwiCommit(twi_xfer_chr_transmit(TwiState, value), "write_THR", 0)
    /\ twi_thr' = Append(twi_thr, value)
    /\ UNCHANGED twi_next

twi_timer_tick ==
    /\ twi.timer > 0
    /\ TwiCommit(ptimer_tick(TwiState), IF twi.timer = 1 THEN "expiry" ELSE "other", 0)
    /\ twi_thr' = IF twi.timer = 1 THEN <<>> ELSE twi_thr
    /\ UNCHANGED twi_next

twi_iox_receive_DATA_IN(len) ==
    /\ twi.client
    /\ twi_next + len <= MaxTwiBytes + 1
    /\ TwiCommit(twi_iox_receive(TwiState, Frame(0, IOX_CAT_DATA, IOX_CID_DATA_IN,
                                                 [i \in 1 .. len |-> twi_next + i - 1])),
                 "other", 0)
    /\ twi_next' = twi_next + len
    /\ UNCHANGED twi_thr

twi_iox_receive_FAULT(id) ==
    /\ twi.client
    /\ TwiCommit(twi_iox_receive(TwiState, Frame(0, IOX_CAT_FAULT, id, <<>>)), "other", 0)
    /\ UNCHANGED <<twi_thr, twi_next>>

twi_server_accept ==
    /\ ~twi.client
    /\ TwiCommit([TwiState EXCEPT !.client = TRUE], "other", 0)
    /\ UNCHANGED <<twi_thr, twi_next>>

twi_client_hup ==
    /\ twi.client
    /\ TwiCommit([TwiState EXCEPT !.client = FALSE], "other", 0)
    /\ UNCHANGED <<twi_thr, twi_next>>

twi_device_reset ==
    /\ TwiCommit(twi_reset_registers(TwiState), "reset", 0)
    /\ UNCHANGED <<twi_thr, twi_next>>

twi_mmio_write_PDC(reg, value) ==
    /\ TwiCommit(twi_write_PDC(TwiState, reg, value), reg, 0)
    /\ UNCHANGED <<twi_thr, twi_next>>

\* Firmware drives one direction at a time: TwiTxStep has the steps of a
\* transmission, TwiRxStep those of a reception.
TwiTxStep ==
    \/ twi_mmio_read_SR /\ UNCHANGED otherThanTwi
    \/ \E value \in TwiCrVals : twi_mmio_write_CR(value) /\ UNCHANGED otherThanTwi
    \/ \E value \in TwiMmrVals : twi_mmio_write_MMR(value) /\ UNCHANGED otherThanTwi
    \/ \E value \in TwiThrVals : twi_mmio_write_THR(value) /\ UNCHANGED otherThanTwi
    \/ twi_timer_tick /\ UNCHANGED otherThanTwi
    \/ twi_server_accept /\ UNCHANGED otherThanTwi
    \/ twi_client_hup /\ UNCHANGED otherThanTwi
    \/ twi_device_reset /\ UNCHANGED otherThanTwi

TwiRxStep ==
    \/ twi_mmio_read_SR /\ UNCHANGED otherThanTwi
    \/ twi_mmio_read_RHR /\ UNCHANGED otherThanTwi
    \/ \E value \in TwiImrVals : twi_mmio_write_IER(value) /\ UNCHANGED otherThanTwi
    \/ \E value \in TwiImrVals : twi_mmio_write_IDR(value) /\ UNCHANGED otherThanTwi
    \/ \E len \in TwiPayloadLens : twi_iox_receive_DATA_IN(len) /\ UNCHANGED otherThanTwi
    \/ \E id \in TwiFaults : twi_iox_receive_FAULT(id) /\ UNCHANGED otherThanTwi
    \/ twi_server_accept /\ UNCHANGED otherThanTwi
    \/ twi_client_hup /\ UNCHANGED otherThanTwi
    \/ twi_device_reset /\ UNCHANGED otherThanTwi

\* a transmission through THR and through the transmit channel of the PDC
TwiPdcTxVals == {1, 2}
TwiPdcStep ==
    \/ twi_mmio_write_CR({"MSEN"}) /\ UNCHANGED otherThanTwi
    \/ \E value \in TwiMmrVals : twi_mmio_write_MMR(value) /\ UNCHANGED otherThanTwi
    \/ \E value \in TwiThrVals : twi_mmio_write_THR(value) /\ UNCHANGED otherThanTwi
    \/ twi_timer_tick /\ UNCHANGED otherThanTwi
    \/ \E value \in TwiPdcTxVals : twi_mmio_write_PDC("TCR", value) /\ UNCHANGED otherThanTwi
    \/ \E value \in TwiPdcTxVals : twi_mmio_write_PDC("TNCR", value) /\ UNCHANGED otherThanTwi
    \/ \E value \in PtcrTxVals : twi_mmio_write_PDC("PTCR", value) /\ UNCHANGED otherThanTwi
    \/ twi_server_accept /\ UNCHANGED otherThanTwi

(***************************************************************************)
(*                              P M C                                      *)
(*                                                                         *)
(* The power management controller (at91-pmc.c from line 207) as functions *)
(* on a record s.  Fields of s:                                            *)
(*   moscen      bit 0 of CKGR_MOR                                         *)
(*   plla, pllb  [div, mul]: the divider and multiplier fields of          *)
(*               CKGR_PLLAR and CKGR_PLLBR                                 *)
(*   mckr        [css, pres, mdiv]: the fields of PMC_MCKR                 *)
(*   sr, imr     sets of flag names                                        *)
(*   irq         the interrupt line                                        *)
(*   freq        master_clock_freq                                         *)
(*   notified    the calls of the mclk callback: the frequencies passed    *)
(***************************************************************************)
AT91_PMC_SLCK == 32768
AT91_PMC_MCK == 18432000

ClockReady(s) ==
    CASE s.mckr.css = 0 -> TRUE
      [] s.mckr.css = 1 -> "MOSCS" \in s.sr
      [] s.mckr.css = 2 -> "LOCKA" \in s.sr /\ s.plla.div # 0 /\ s.plla.mul # 0
      [] s.mckr.css = 3 -> "LOCKB" \in s.sr /\ s.pllb.div # 0 /\ s.pllb.mul # 0

\* (the multipliers written keep the product within an unsigned)
SourceFreq(s) ==
    CASE s.mckr.css = 0 -> AT91_PMC_SLCK
      [] s.mckr.css = 1 -> AT91_PMC_MCK
      [] s.mckr.css = 2 -> (AT91_PMC_MCK \div s.plla.div) * (s.plla.mul + 1)
      [] s.mckr.css = 3 -> (AT91_PMC_MCK \div s.pllb.div) * (s.pllb.mul + 1)

Divided(s, freq) == IF s.mckr.mdiv # 0 THEN freq \div (2 * s.mckr.mdiv) ELSE freq

ClockFreq(s) ==
    IF ClockReady(s) THEN Divided(s, SourceFreq(s) \div (2 ^ s.mckr.pres)) ELSE s.freq

pmc_notify_mclk_change(s) == [s EXCEPT !.notified = Append(@, s.freq)]

NotifyAlwaysMut(s, freq) == pmc_notify_mclk_change([s EXCEPT !.freq = freq])

PmcSetFreq(s, freq) ==
    IF s.freq # freq THEN pmc_notify_mclk_change([s EXCEPT !.freq = freq]) ELSE s

PmcSetReady(s) ==
    IF ClockReady(s) THEN [s EXCEPT !.sr = @ \cup {"MCKRDY"}]
    ELSE [s EXCEPT !.sr = @ \ {"MCKRDY"}]

pmc_update_mckr(s) == PmcSetFreq(PmcSetReady(s), ClockFreq(s))

\* the end of pmc_mmio_write
PmcWritten(s) == [s EXCEPT !.irq = (s.sr \cap s.imr) # {}]

pmc_write_MOR(s, moscen) ==
    PmcWritten(pmc_update_mckr(
        [s EXCEPT !.moscen = moscen,
                  !.sr = IF moscen THEN @ \cup {"MOSCS"} ELSE @ \ {"MOSCS"}]))

pmc_write_PLLAR(s, value) ==
    PmcWritten(pmc_update_mckr([s EXCEPT !.plla = value, !.sr = @ \cup {"LOCKA"}]))

pmc_write_PLLBR(s, value) ==
    PmcWritten(pmc_update_mckr([s EXCEPT !.pllb = value, !.sr = @ \cup {"LOCKB"}]))

pmc_write_MCKR(s, value) == PmcWritten(pmc_update_mckr([s EXCEPT !.mckr = value]))

pmc_write_IER(s, value) == PmcWritten(pmc_update_mckr([s EXCEPT !.imr = @ \cup value]))

pmc_write_IDR(s, value) == PmcWritten(pmc_update_mckr([s EXCEPT !.imr = @ \ value]))

pmc_reset_registers(s) ==
    [s EXCEPT !.moscen = FALSE,
              !.plla = [div |-> 0, mul |-> 0], !.pllb = [div |-> 0, mul |-> 0],
              !.mckr = [css |-> 0, pres |-> 0, mdiv |-> 0],
              !.sr = {"MCKRDY"}, !.imr = {}]

\* pmc_device_realize, before the board registers the callback
PmcRealized ==
    [pmc_update_mckr(pmc_reset_registers(
         [moscen |-> FALSE, plla |-> [div |-> 0, mul |-> 0], pllb |-> [div |-> 0, mul |-> 0],
          mckr |-> [css |-> 0, pres |-> 0, mdiv |-> 0], sr |-> {}, imr |-> {},
          irq |-> FALSE, freq |-> 0, notified |-> <<>>]))
        EXCEPT !.notified = <<>>]

PmcInit ==
    /\ pmc = [f \in DOMAIN PmcRealized \ {"notified"} |-> PmcRealized[f]]
    /\ pmc_called = FALSE
    /\ pmc_delivered = 0
    /\ pmc_since = 0
    /\ pmc_op = <<"other">>
    /\ pmc_writes = 0

\* ---- inputs ----
PllVals == {[div |-> 0, mul |-> 0], [div |-> 1, mul |-> 0], [div |-> 1, mul |-> 1]}
MckrVals == {[css |-> c, pres |-> p, mdiv |-> 0] : c \in 0 .. 3, p \in 0 .. 1}
PmcImrVals == {{"MCKRDY"}}

PmcState == pmc @@ [notified |-> <<>>]

\* reset says whether the step is a device reset
PmcCommit(s, op, reset) ==
    /\ pmc' = [f \in DOMAIN pmc |-> s[f]]
    /\ pmc_called' = (s.notified # <<>>)
    /\ pmc_delivered' = IF s.notified # <<>> THEN s.notified[Len(s.notified)] ELSE pmc_delivered
    /\ pmc_since' = IF s.notified # <<>> THEN s.notified[Len(s.notified)]
                    ELSE IF reset THEN 0 ELSE pmc_since
    /\ pmc_op' = op

PmcWrite(s, op) ==
    /\ pmc_writes < MaxPmcWrites
    /\ PmcCommit(s, op, FALSE)
    /\ pmc_writes' = pmc_writes + 1

\* ---- actions ----
pmc_mmio_write_MOR(moscen) == PmcWrite(pmc_write_MOR(PmcState, moscen), <<"other">>)
pmc_mmio_write_PLLAR(value) == PmcWrite(pmc_write_PLLAR(PmcState, value), <<"PLLAR">>)
pmc_mmio_write_PLLBR(value) == PmcWrite(pmc_write_PLLBR(PmcState, value), <<"PLLBR">>)
pmc_mmio_write_MCKR(value) == PmcWrite(pmc_write_MCKR(PmcState, value), <<"MCKR", value>>)
pmc_mmio_write_IER(value) == PmcWrite(pmc_write_IER(PmcState, value), <<"other">>)
pmc_mmio_write_IDR(value) == PmcWrite(pmc_write_IDR(PmcState, value), <<"other">>)

pmc_device_reset ==
    /\ PmcCommit(pmc_update_mckr([PmcState EXCEPT !.freq = 0]), <<"reset">>, TRUE)
    /\ UNCHANGED pmc_writes

PmcStep ==
    \/ \E moscen \in BOOLEAN : pmc_mmio_write_MOR(moscen) /\ UNCHANGED otherThanPmc
    \/ \E value \in PllVals : pmc_mmio_write_PLLAR(value) /\ UNCHANGED otherThanPmc
    \/ \E value \in PllVals : pmc_mmio_write_PLLBR(value) /\ UNCHANGED otherThanPmc
    \/ \E value \in MckrVals : pmc_mmio_write_MCKR(value) /\ UNCHANGED otherThanPmc
    \/ \E value \in PmcImrVals : pmc_mmio_write_IER(value) /\ UNCHANGED otherThanPmc
    \/ \E value \in PmcImrVals : pmc_mmio_write_IDR(value) /\ UNCHANGED otherThanPmc
    \/ pmc_device_reset /\ UNCHANGED otherThanPmc

(***************************************************************************)
(* Bus matrix (at91-matrix.c) and the boot memory of the SoC (iobc-soc.c). *)
(*                                                                         *)
(* matrix (MatrixState):                                                   *)
(*   reg_mrcr    MATRIX_MRCR, 0 .. 3: bit 0 is RCB0, bit 1 is RCB1         *)
(*   bms         the boot mode select pin, AT91_BMS_INIT from realize on   *)
(*   abort       the device has called abort()                             *)
(* soc (IobcSoc):                                                          *)
(*   mem_boot_target   the region the boot memory was mapped to last       *)
(*   mem_boot_enabled  the aliases mem_boot[r] that are enabled            *)
(* sys_mem: the bytes of the three regions at the offsets Offsets.  The   *)
(* three aliases overlap at address 0 with the same priority, each 1 MiB   *)
(* from offset 0 of its region.                                            *)
(***************************************************************************)
AT91_BMS_INIT == 0
MRCR_RCB0 == 1
MRCR_RCB1 == 2

AT91_BOOTMEM_ROM == "ROM"
AT91_BOOTMEM_SRAM0 == "SRAM0"
AT91_BOOTMEM_EBI_NCS0 == "EBI_NCS0"
BootmemRegions == {AT91_BOOTMEM_ROM, AT91_BOOTMEM_SRAM0, AT91_BOOTMEM_EBI_NCS0}

\* memory_region_init_rom / memory_region_init_ram: the ROM takes no writes
RamRegions == {AT91_BOOTMEM_SRAM0, AT91_BOOTMEM_EBI_NCS0}

Offsets == {0, 1}
MemVals == {165, 60}
MrcrVals == 0 .. 3

\* the images loaded into the regions: every byte differs from every other
LoadedImage == [r \in BootmemRegions |-> [o \in Offsets |->
    (CASE r = AT91_BOOTMEM_ROM -> 16 [] r = AT91_BOOTMEM_SRAM0 -> 32 [] OTHER -> 48) + o]]

HasBit(value, bit) == (value \div bit) % 2 = 1

\* both set_enabled calls are inside one memory transaction
RemapKeepsOldMut(s, target) ==
    [s EXCEPT !.mem_boot_enabled = @ \cup {target}, !.mem_boot_target = target]

iobc_soc_remap_bootmem(s, target) ==
    [s EXCEPT !.mem_boot_enabled = (@ \ {s.mem_boot_target}) \cup {target},
              !.mem_boot_target = target]

\* b is [matrix, soc]; the callback is the SoC's, registered before any access
matrix_bootmem_remap(b, target) ==
    [b EXCEPT !.soc = iobc_soc_remap_bootmem(b.soc, target)]

matrix_bootmem_update(b) ==
    IF HasBit(b.matrix.reg_mrcr, MRCR_RCB0) /\ HasBit(b.matrix.reg_mrcr, MRCR_RCB1)
    THEN matrix_bootmem_remap(b, AT91_BOOTMEM_SRAM0)
    ELSE IF ~HasBit(b.matrix.reg_mrcr, MRCR_RCB0) /\ ~HasBit(b.matrix.reg_mrcr, MRCR_RCB1)
    THEN IF b.matrix.bms
         THEN matrix_bootmem_remap(b, AT91_BOOTMEM_ROM)
         ELSE matrix_bootmem_remap(b, AT91_BOOTMEM_EBI_NCS0)
    ELSE [b EXCEPT !.matrix.abort = TRUE]

matrix_write_MRCR(b, value) ==
    matrix_bootmem_update([b EXCEPT !.matrix.reg_mrcr = value])

matrix_reset_registers(b) == [b EXCEPT !.matrix.reg_mrcr = 0]

\* what a read at offset o of the boot memory window can return: the byte of
\* an enabled alias; with none enabled the access falls through the window (-1)
BootmemReads(s, mem, o) ==
    IF s.mem_boot_enabled = {} THEN {-1}
    ELSE {mem[r][o] : r \in s.mem_boot_enabled}

MatrixRealized == [reg_mrcr |-> 0, bms |-> (AT91_BMS_INIT # 0), abort |-> FALSE]

SocRealized ==
    LET target == IF AT91_BMS_INIT # 0 THEN AT91_BOOTMEM_ROM ELSE AT91_BOOTMEM_EBI_NCS0
    IN  [mem_boot_target |-> target, mem_boot_enabled |-> {target}]

MxInit ==
    /\ matrix = MatrixRealized
    /\ soc = SocRealized
    /\ sys_mem = LoadedImage
    /\ mx_op = "none"
    /\ mx_ret = 0

Board == [matrix |-> matrix, soc |-> soc]

MxCommit(b, op, ret) ==
    /\ ~matrix.abort
    /\ matrix' = b.matrix
    /\ soc' = b.soc
    /\ mx_op' = op
    /\ mx_ret' = ret

matrix_mmio_write_MRCR(value) ==
    /\ MxCommit(matrix_write_MRCR(Board, value), "write_MRCR", 0)
    /\ UNCHANGED sys_mem

matrix_mmio_read_MRCR ==
    /\ MxCommit(Board, "read_MRCR", matrix.reg_mrcr)
    /\ UNCHANGED sys_mem

matrix_device_reset ==
    /\ MxCommit(matrix_bootmem_update(matrix_reset_registers(Board)), "reset", 0)
    /\ UNCHANGED sys_mem

\* the CPU reads a byte of the window at 0x0000_0000
bootmem_read(o) ==
    /\ \E v \in BootmemReads(soc, sys_mem, o) : MxCommit(Board, "read_bootmem", v)
    /\ UNCHANGED sys_mem

\* the CPU writes a byte of the window: it lands in the enabled alias
bootmem_write(o, v) ==
    /\ \E r \in soc.mem_boot_enabled :
          sys_mem' = IF r \in RamRegions THEN [sys_mem EXCEPT ![r][o] = v] ELSE sys_mem
    /\ MxCommit(Board, "write_bootmem", 0)

\* the CPU writes a byte of a RAM region at the region's own address
region_write(r, o, v) ==
    /\ sys_mem' = [sys_mem EXCEPT ![r][o] = v]
    /\ MxCommit(Board, "write_region", 0)

MxStep ==
    \/ \E value \in MrcrVals : matrix_mmio_write_MRCR(value) /\ UNCHANGED otherThanMx
    \/ matrix_mmio_read_MRCR /\ UNCHANGED otherThanMx
    \/ matrix_device_reset /\ UNCHANGED otherThanMx
    \/ \E o \in Offsets : bootmem_read(o) /\ UNCHANGED otherThanMx
    \/ \E o \in Offsets, v \in MemVals : bootmem_write(o, v) /\ UNCHANGED otherThanMx
    \/ \E r \in RamRegions, o \in Offsets, v \in MemVals :
          region_write(r, o, v) /\ UNCHANGED otherThanMx

(***************************************************************************)
(* AIC stub (at91-aic_stub.c): the OR of the system controller's           *)
(* interrupts, wired to AIC line 1.                                        *)
(*   stub_line_state   line_state: the input lines recorded high           *)
(*   stub_irq          the level last driven on the output (qemu_irq irq)  *)
(***************************************************************************)
\* the input lines driven, of the stub's lines 0 .. 31
StubLines == {0, 1, 2, 30, 31}

\* aicstub_device_realize; an output nobody has driven yet is low
AicStubInit ==
    /\ stub_line_state = {}
    /\ stub_irq = FALSE
    /\ stub_op = <<"none">>

aicstub_irq_handle(n, level) ==
    /\ stub_line_state' = IF level THEN stub_line_state \cup {n} ELSE stub_line_state \ {n}
    /\ stub_irq' = (stub_line_state' # {})
    /\ stub_op' = <<"handle", n, level>>

aicstub_device_reset ==
    /\ stub_line_state' = {}
    /\ UNCHANGED stub_irq
    /\ stub_op' = <<"reset">>

AicStubStep ==
    \/ \E n \in StubLines, level \in BOOLEAN :
          aicstub_irq_handle(n, level) /\ UNCHANGED otherThanStub
    \/ aicstub_device_reset /\ UNCHANGED otherThanStub

(***************************************************************************)
(* Half-duplex PDC (at91-pdc.h, at91_pdc_set_register_hd).                 *)
(*   hdpdc   At91Pdc: ptsr (subset of {"RXTEN", "TXTEN"}), the pointer and *)
(*           counter registers, and abort (the emulator has aborted)       *)
(*   hd_op   the write that ran last, <<offset, value>>, or <<"reset">>    *)
(*   hd_action   the at91_pdc_action the last write returned               *)
(***************************************************************************)
PtcrBits == {"RXTEN", "RXTDIS", "TXTEN", "TXTDIS"}
HdPtcrVals == SUBSET PtcrBits
HdRegVals == {0, 1}
HdRegOffsets == {"RPR", "TPR", "RCR", "TCR", "RNPR", "TNPR", "RNCR", "TNCR"}

\* the registers as at91_pdc_reset_registers leaves them
HdPdcReset ==
    [ptsr |-> {}, rpr |-> 0, rcr |-> 0, tpr |-> 0, tcr |-> 0,
     rnpr |-> 0, rncr |-> 0, tnpr |-> 0, tncr |-> 0, abort |-> FALSE]

\* the PTCR case with the transmitter enabled whatever the receiver's state
HdPtcrTxAlwaysMut(ptsr, value) ==
    LET p1 == IF "RXTEN" \in value /\ "RXTDIS" \notin value
              THEN (ptsr \cup {"RXTEN"}) \ {"TXTEN"} ELSE ptsr
        p2 == IF "RXTDIS" \in value THEN p1 \ {"RXTEN", "TXTEN"} ELSE p1
        p3 == IF "TXTEN" \in value /\ "TXTDIS" \notin value
              THEN p2 \cup {"TXTEN"} ELSE p2
    IN  IF "TXTDIS" \in value THEN p3 \ {"RXTEN", "TXTEN"} ELSE p3

\* the PTCR case past its abort test: the four ifs in order
HdPtcr(ptsr, value) ==
    LET p1 == IF "RXTEN" \in value /\ "RXTDIS" \notin value
              THEN (ptsr \cup {"RXTEN"}) \ {"TXTEN"} ELSE ptsr
        p2 == IF "RXTDIS" \in value THEN p1 \ {"RXTEN", "TXTEN"} ELSE p1
        p3 == IF "TXTEN" \in value /\ "TXTDIS" \notin value /\ "RXTEN" \notin p2
              THEN p2 \cup {"TXTEN"} ELSE p2
    IN  IF "TXTDIS" \in value THEN p3 \ {"RXTEN", "TXTEN"} ELSE p3

\* returns <<pdc, action>>; PDC_TNCR has no case label and takes the default
at91_pdc_set_register_hd(pdc, offset, value) ==
    CASE offset \in {"RPR", "TPR"} ->
            <<[pdc EXCEPT !.rpr = value, !.tpr = value], "NONE">>
      [] offset \in {"RCR", "TCR"} ->
            <<[pdc EXCEPT !.rcr = value, !.tcr = value],
              IF "TXTEN" \in pdc.ptsr
              THEN (IF value # 0 THEN "START_TX" ELSE "STOP_TX")
              ELSE IF "RXTEN" \in pdc.ptsr
              THEN (IF value # 0 THEN "START_RX" ELSE "STOP_RX")
              ELSE "NONE">>
      [] offset \in {"RNPR", "TNPR"} ->
            <<[pdc EXCEPT !.rnpr = value, !.tnpr = value], "NONE">>
      [] offset = "RNCR" ->
            <<[pdc EXCEPT !.rncr = value, !.tncr = value], "NONE">>
      [] offset = "PTCR" ->
            IF {"RXTEN", "TXTEN"} \subseteq value
            THEN <<[pdc EXCEPT !.abort = TRUE], "NONE">>
            ELSE <<[pdc EXCEPT !.ptsr = HdPtcr(pdc.ptsr, value)], "STATE">>
      [] OTHER -> <<[pdc EXCEPT !.abort = TRUE], "NONE">>

HdPdcInit ==
    /\ hdpdc = HdPdcReset
    /\ hd_op = <<"reset">>
    /\ hd_action = "NONE"

HdCommit(r, op) ==
    /\ ~hdpdc.abort
    /\ hdpdc' = r[1]
    /\ hd_action' = r[2]
    /\ hd_op' = op

hd_write_register(offset, value) ==
    HdCommit(at91_pdc_set_register_hd(hdpdc, offset, value), <<offset, value>>)

hd_write_PTCR(value) ==
    HdCommit(at91_pdc_set_register_hd(hdpdc, "PTCR", value), <<"PTCR", value>>)

hd_reset == HdCommit(<<HdPdcReset, "NONE">>, <<"reset">>)

HdPdcStep ==
    \/ \E offset \in HdRegOffsets, value \in HdRegVals :
          hd_write_register(offset, value) /\ UNCHANGED otherThanHd
    \/ \E value \in HdPtcrVals : hd_write_PTCR(value) /\ UNCHANGED otherThanHd
    \/ hd_reset /\ UNCHANGED otherThanHd

(***************************************************************************)
(* PIO (at91-pio.c).  Registers are the sets of pins whose bit is 1.       *)
(*   pio   PioState: psr, osr, odsr, owsr, absr, pdsr, isr, imr, irq; the  *)
(*         inputs pin_state_in, pin_state_periph_a and pin_state_periph_b  *)
(*         stay as constructed (all low)                                   *)
(*   pio_op    the write that ran last, <<register, value>>, or <<"none">> *)
(*   pio_sent  the pin states the last step sent to the attached client    *)
(***************************************************************************)
\* the pins modelled, of the block's pins 0 .. 31
Pins == {0, 1}
PioVals == SUBSET Pins
PioRegs == {"PER", "PDR", "OER", "ODR", "SODR", "CODR", "OWER", "OWDR"}

\* the level pio_update_pins gives a pin
PinLevel(s, pin) ==
    IF pin \in s.psr
    THEN (IF pin \in s.osr THEN pin \in s.odsr ELSE pin \in s.pin_state_in)
    ELSE IF pin \notin s.absr THEN pin \in s.pin_state_periph_a
    ELSE pin \in s.pin_state_periph_b

pio_update_irq(s) == [s EXCEPT !.irq = (s.isr \cap s.imr # {})]

\* returns the state; the pin state is sent when reg_pdsr has changed
pio_update_pins(s) ==
    LET pdsr == {pin \in Pins : PinLevel(s, pin)}
        changed == (s.pdsr \ pdsr) \cup (pdsr \ s.pdsr)
    IN  pio_update_irq([s EXCEPT !.pdsr = pdsr, !.isr = @ \cup changed])

\* the PIO_ODSR case as the data sheet has it: enabled bits take the value
OdsrWriteMut(s, value) ==
    [s EXCEPT !.odsr = (@ \cup (s.owsr \cap value)) \cap ((Pins \ s.owsr) \cup value)]

\* the PIO_ODSR case: reg_odsr |= (owsr & value); reg_odsr &= (~owsr | ~value)
pio_write_ODSR(s, value) ==
    [s EXCEPT !.odsr = (@ \cup (s.owsr \cap value))
                          \cap ((Pins \ s.owsr) \cup (Pins \ value))]

\* the cases of pio_mmio_write that set or clear bits of one register
pio_write_register(s, offset, value) ==
    CASE offset = "PER" -> [s EXCEPT !.psr = @ \cup value]
      [] offset = "PDR" -> [s EXCEPT !.psr = @ \ value]
      [] offset = "OER" -> [s EXCEPT !.osr = @ \cup value]
      [] offset = "ODR" -> [s EXCEPT !.osr = @ \ value]
      [] offset = "SODR" -> [s EXCEPT !.odsr = @ \cup value]
      [] offset = "CODR" -> [s EXCEPT !.odsr = @ \ value]
      [] offset = "OWER" -> [s EXCEPT !.owsr = @ \cup value]
      [] offset = "OWDR" -> [s EXCEPT !.owsr = @ \ value]

pio_reset_registers ==
    [psr |-> {}, osr |-> {}, odsr |-> {}, owsr |-> {}, absr |-> {}, pdsr |-> {},
     isr |-> {}, imr |-> {}, irq |-> FALSE,
     pin_state_in |-> {}, pin_state_periph_a |-> {}, pin_state_periph_b |-> {}]

PioInit ==
    /\ pio = pio_reset_registers
    /\ pio_op = <<"none">>
    /\ pio_sent = <<>>

\* a write ends with pio_update_pins, which sends the pin state on a change
PioCommit(s, op) ==
    /\ pio' = pio_update_pins(s)
    /\ pio_sent' = IF pio'.pdsr # pio.pdsr THEN <<pio'.pdsr>> ELSE <<>>
    /\ pio_op' = op

pio_mmio_write(offset, value) ==
    PioCommit(pio_write_register(pio, offset, value), <<offset, value>>)

pio_mmio_write_ODSR(value) ==
    PioCommit(pio_write_ODSR(pio, value), <<"ODSR", value>>)

PioStep ==
    \/ \E offset \in PioRegs, value \in PioVals :
          pio_mmio_write(offset, value) /\ UNCHANGED otherThanPio
    \/ \E value \in PioVals : pio_mmio_write_ODSR(value) /\ UNCHANGED otherThanPio

(***************************************************************************)
(* PIT (at91-pit.c) with its ptimer.                                       *)
(*   pit   PitState: mr [piv, piten, pitien], pits (SR_PITS), picnt, irq   *)
(*         (the level last driven on the interrupt line), and the ptimer:  *)
(*         t_enabled, t_limit, t_count, and t_presc, the master-clock      *)
(*         ticks into the current timer tick (the timer runs at mclk / 16) *)
(*   pit_op    the step that ran last                                      *)
(*   pit_ret   the value the last step returned when it was a read, else 0 *)
(*   pit_elapsed   history: master-clock ticks since an MR write started   *)
(*         the timer with PICNT = 0 and PITS clear, -1 once a PIVR read,   *)
(*         another MR write or a reset has happened, or past the first     *)
(*         period                                                          *)
(*   pit_since     history: timer ticks since the counter was loaded or    *)
(*         wrapped last (the value of CPIV)                                *)
(***************************************************************************)
PitPrescale == 16
PicntWidth == 4096
CpivWidth == 1048576
MR_PIV == 1048575

PitPivVals == {0, 2}
PitMrVals == [piv : PitPivVals, piten : BOOLEAN, pitien : BOOLEAN]

\* the tick that does not raise the interrupt line
PitTickNoIrqMut(s) ==
    [s EXCEPT !.pits = TRUE,
              !.picnt = (@ + 1) % PicntWidth,
              !.t_enabled = IF s.mr.piten THEN @ ELSE FALSE]

pit_timer_tick(s) ==
    [s EXCEPT !.pits = TRUE,
              !.picnt = (@ + 1) % PicntWidth,
              !.irq = IF s.mr.pitien THEN TRUE ELSE @,
              !.t_enabled = IF s.mr.piten THEN @ ELSE FALSE]

pit_timer_period(s) == 1 + s.mr.piv

\* picnt << 20 | (period - count) & 0xFFFFF
pit_timer_cpiv(s) ==
    s.picnt * CpivWidth + ((pit_timer_period(s) - s.t_count) % CpivWidth)

\* the read that leaves PITS set
PitReadKeepsPitsMut(s) ==
    <<[s EXCEPT !.picnt = 0, !.irq = FALSE],
      s.picnt * CpivWidth + (pit_timer_cpiv(s) % CpivWidth)>>

\* case PIT_PIVR of pit_mmio_read: the or of picnt << 20 with a value that
\* holds picnt << 20 already; returns <<state, value>>
pit_read_PIVR(s) ==
    <<[s EXCEPT !.picnt = 0, !.pits = FALSE, !.irq = FALSE],
      s.picnt * CpivWidth + (pit_timer_cpiv(s) % CpivWidth)>>

pit_read_PIIR(s) == s.picnt * CpivWidth + (pit_timer_cpiv(s) % CpivWidth)

\* ptimer_set_limit(limit, reload = 1) and ptimer_run(periodic)
PitTimerRun(s, limit) ==
    [s EXCEPT !.t_limit = limit, !.t_count = limit, !.t_enabled = TRUE, !.t_presc = 0]

pit_write_MR(s, value) ==
    IF value.piten
    THEN PitTimerRun([s EXCEPT !.mr = value], 1 + value.piv)
    ELSE [s EXCEPT !.mr = value]

pit_reset_registers(s) ==
    [s EXCEPT !.mr = [piv |-> MR_PIV, piten |-> FALSE, pitien |-> FALSE],
              !.pits = FALSE, !.picnt = 0]

\* one master-clock tick of a running periodic ptimer (default policy): every
\* sixteenth moves the counter down; at zero it is loaded with the limit and
\* the callback runs
PitTimerAdvance(s) ==
    IF s.t_presc + 1 < PitPrescale THEN [s EXCEPT !.t_presc = @ + 1]
    ELSE IF s.t_count > 1 THEN [s EXCEPT !.t_presc = 0, !.t_count = @ - 1]
    ELSE pit_timer_tick([s EXCEPT !.t_presc = 0, !.t_count = s.t_limit])

PitInit ==
    /\ pit = [mr |-> [piv |-> MR_PIV, piten |-> FALSE, pitien |-> FALSE],
              pits |-> FALSE, picnt |-> 0, irq |-> FALSE,
              t_enabled |-> FALSE, t_limit |-> 0, t_count |-> 0, t_presc |-> 0]
    /\ pit_op = "none"
    /\ pit_ret = 0
    /\ pit_elapsed = -1
    /\ pit_since = 0

pit_mmio_write_MR(value) ==
    /\ pit' = pit_write_MR(pit, value)
    /\ pit_op' = "write_MR"
    /\ pit_ret' = 0
    /\ pit_elapsed' = IF value.piten /\ pit.picnt = 0 /\ ~pit.pits THEN 0 ELSE -1
    /\ pit_since' = IF value.piten THEN 0 ELSE pit_since

pit_mmio_read_PIVR ==
    /\ pit' = pit_read_PIVR(pit)[1]
    /\ pit_ret' = pit_read_PIVR(pit)[2]
    /\ pit_op' = "read_PIVR"
    /\ pit_elapsed' = -1
    /\ UNCHANGED pit_since

pit_mmio_read_PIIR ==
    /\ pit_ret' = pit_read_PIIR(pit)
    /\ pit_op' = "read_PIIR"
    /\ UNCHANGED <<pit, pit_elapsed, pit_since>>

pit_master_clock_tick ==
    /\ pit.t_enabled
    /\ pit.picnt < MaxPicnt
    /\ pit' = PitTimerAdvance(pit)
    /\ pit_op' = "tick"
    /\ pit_ret' = 0
    /\ pit_elapsed' = IF pit_elapsed < 0 \/ pit_elapsed >= PitPrescale * pit.t_limit
                      THEN -1 ELSE pit_elapsed + 1
    /\ pit_since' = IF pit.t_presc + 1 < PitPrescale THEN pit_since
                    ELSE IF pit.t_count > 1 THEN pit_since + 1 ELSE 0

pit_device_reset ==
    /\ pit' = [pit_reset_registers(pit) EXCEPT !.t_enabled = FALSE, !.irq = FALSE]
    /\ pit_op' = "reset"
    /\ pit_ret' = 0
    /\ pit_elapsed' = -1
    /\ UNCHANGED pit_since

PitStep ==
    \/ \E value \in PitMrVals : pit_mmio_write_MR(value) /\ UNCHANGED otherThanPit
    \/ pit_mmio_read_PIVR /\ UNCHANGED otherThanPit
    \/ pit_mmio_read_PIIR /\ UNCHANGED otherThanPit
    \/ pit_master_clock_tick /\ UNCHANGED otherThanPit
    \/ pit_device_reset /\ UNCHANGED otherThanPit

(***************************************************************************)
(* DBGU (at91-dbgu.c) with the character backend of its chardev.           *)
(*   dbgu   DbguState: sr and imr (the sets of status bits that are 1),    *)
(*          rhr, irq, rx_enabled, tx_enabled                               *)
(*   dbgu_host   the characters the host has sent that the backend has not *)
(*          handed to the device yet                                       *)
(*   dbgu_op     the step that ran last; dbgu_ret the value a read         *)
(*          returned, the character a THR write sent to the host, the      *)
(*          bits an IER or IDR write carried, else 0                       *)
(***************************************************************************)
\* the bits of DBGU_SR; the mask registers are modelled on these bits only
DbguSrBits == {"RXRDY", "TXRDY", "ENDRX", "ENDTX", "OVRE", "FRAME", "PARE",
               "TXEMPTY", "TXBUFE", "RXBUFF", "COMMTX", "COMMRX"}
DbguChars == {65, 66}
DbguCrVals == {{"RXEN"}, {"RSTRX"}, {"TXEN"}, {"RSTSTA"}, {"RSTTX", "RXDIS", "TXDIS"}}
DbguMaskVals == {{"RXRDY"}, {"OVRE"}}

DbguIrq(s) == [s EXCEPT !.irq = (s.sr \cap s.imr # {})]

\* ready for a character whatever RXRDY is
CanReceiveAlwaysMut(s) == 1

dbgu_uart_can_receive(s) == IF "RXRDY" \in s.sr THEN 0 ELSE 1

dbgu_uart_receive(s, ch) ==
    IF "RXRDY" \in s.sr
    THEN [s EXCEPT !.sr = @ \cup {"OVRE"}]
    ELSE DbguIrq([s EXCEPT !.rhr = ch, !.sr = @ \cup {"RXRDY"}])

dbgu_read_RHR(s) == DbguIrq([s EXCEPT !.sr = @ \ {"RXRDY"}])

dbgu_write_CR(s, value) ==
    LET s1 == IF "RSTRX" \in value
              THEN [s EXCEPT !.sr = @ \ {"RXBUFF"}, !.rx_enabled = FALSE] ELSE s
        s2 == IF "RSTTX" \in value
              THEN [s1 EXCEPT !.sr = @ \cup {"TXEMPTY"}, !.tx_enabled = FALSE] ELSE s1
        s3 == IF "RXEN" \in value THEN [s2 EXCEPT !.rx_enabled = TRUE] ELSE s2
        s4 == IF "RXDIS" \in value THEN [s3 EXCEPT !.rx_enabled = FALSE] ELSE s3
        s5 == IF "TXEN" \in value
              THEN [s4 EXCEPT !.sr = @ \cup {"TXRDY"}, !.tx_enabled = TRUE] ELSE s4
        s6 == IF "TXDIS" \in value THEN [s5 EXCEPT !.tx_enabled = FALSE] ELSE s5
    IN  DbguIrq(IF "RSTSTA" \in value
                THEN [s6 EXCEPT !.sr = @ \ {"PARE", "FRAME", "OVRE"}] ELSE s6)

\* reg_imr |= ~value
dbgu_write_IER(s, value) == DbguIrq([s EXCEPT !.imr = @ \cup (DbguSrBits \ value)])

dbgu_write_IDR(s, value) == DbguIrq([s EXCEPT !.imr = @ \ value])

dbgu_write_THR(s, value) == DbguIrq([s EXCEPT !.sr = @ \cup {"TXRDY", "TXEMPTY"}])

\* the interrupt output is not driven by a reset
dbgu_reset_registers(s) ==
    [s EXCEPT !.sr = {"TXEMPTY"}, !.imr = {}, !.rhr = 0,
              !.rx_enabled = FALSE, !.tx_enabled = FALSE]

DbguInit ==
    /\ dbgu = [sr |-> {"TXEMPTY"}, imr |-> {}, rhr |-> 0, irq |-> FALSE,
               rx_enabled |-> FALSE, tx_enabled |-> FALSE]
    /\ dbgu_host = <<>>
    /\ dbgu_op = "none"
    /\ dbgu_ret = 0

\* the backend offers its oldest character: it asks can_receive and calls
\* receive with one character when the answer is not 0
ChrOffer(s, host) ==
    IF host # <<>> /\ dbgu_uart_can_receive(s) # 0
    THEN <<dbgu_uart_receive(s, Head(host)), Tail(host)>>
    ELSE <<s, host>>

DbguMmio(s, op, ret) ==
    /\ dbgu' = s
    /\ dbgu_op' = op
    /\ dbgu_ret' = ret
    /\ UNCHANGED dbgu_host

\* a character arrives from the host and the backend offers what it holds
host_char_arrives(ch) ==
    /\ Len(dbgu_host) < MaxHost
    /\ dbgu' = ChrOffer(dbgu, Append(dbgu_host, ch))[1]
    /\ dbgu_host' = ChrOffer(dbgu, Append(dbgu_host, ch))[2]
    /\ dbgu_op' = "arrive"
    /\ dbgu_ret' = ch

\* the main loop polls the backend, which holds a character
chr_poll ==
    /\ dbgu_host # <<>>
    /\ dbgu' = ChrOffer(dbgu, dbgu_host)[1]
    /\ dbgu_host' = ChrOffer(dbgu, dbgu_host)[2]
    /\ dbgu_op' = "poll"
    /\ dbgu_ret' = 0

dbgu_mmio_read_RHR == DbguMmio(dbgu_read_RHR(dbgu), "read_RHR", dbgu.rhr)
dbgu_mmio_read_SR == DbguMmio(dbgu, "read_SR", 0)
dbgu_mmio_write_CR(value) == DbguMmio(dbgu_write_CR(dbgu, value), "write_CR", 0)
dbgu_mmio_write_IER(value) == DbguMmio(dbgu_write_IER(dbgu, value), "write_IER", value)
dbgu_mmio_write_IDR(value) == DbguMmio(dbgu_write_IDR(dbgu, value), "write_IDR", value)
dbgu_mmio_write_THR(value) == DbguMmio(dbgu_write_THR(dbgu, value), "write_THR", value)
dbgu_device_reset == DbguMmio(dbgu_reset_registers(dbgu), "reset", 0)

DbguStep ==
    \/ \E ch \in DbguChars : host_char_arrives(ch) /\ UNCHANGED otherThanDbgu
    \/ chr_poll /\ UNCHANGED otherThanDbgu
    \/ dbgu_mmio_read_RHR /\ UNCHANGED otherThanDbgu
    \/ dbgu_mmio_read_SR /\ UNCHANGED otherThanDbgu
    \/ \E value \in DbguCrVals : dbgu_mmio_write_CR(value) /\ UNCHANGED otherThanDbgu
    \/ \E value \in DbguMaskVals : dbgu_mmio_write_IER(value) /\ UNCHANGED otherThanDbgu
    \/ \E value \in DbguMaskVals : dbgu_mmio_write_IDR(value) /\ UNCHANGED otherThanDbgu
    \/ \E value \in DbguChars : dbgu_mmio_write_THR(value) /\ UNCHANGED otherThanDbgu
    \/ dbgu_device_reset /\ UNCHANGED otherThanDbgu

(***************************************************************************)
(* MCI (at91-mci.c): the data path of read and write transfers.            *)
(*   mci   MciState: sr, mr and imr are the sets of bits that are 1        *)
(*         (mr: PDCMODE and PDCFBYTE only); blklen and bcnt are the two    *)
(*         fields of BLKR; rcr, rncr and rxten are the receive side of     *)
(*         the PDC; sd_bytes is the number of bytes the handler that ran   *)
(*         last read from the selected card.                               *)
(* The card answers every command with the expected response length and    *)
(* has data ready whenever a read is in progress.  The transmit side of    *)
(* the PDC is never enabled.  A handler that calls abort() has no          *)
(* successor state.                                                        *)
(***************************************************************************)
BLKLEN_MULTIBLOCK_UNLIMITED == -1

MciBlklens == {4}
MciBcnts == {1, 2}
MciCounts == {0, 2}
MciMrVals == {{}, {"PDCMODE"}}
MciCrVals == {{"MCIEN"}, {"MCIDIS"}, {"SWRST"}}
MciCmds ==
    {[trcmd |-> "NONE", read |-> FALSE, trtyp |-> "SINGLE_BLOCK"],
     [trcmd |-> "STOP", read |-> FALSE, trtyp |-> "SINGLE_BLOCK"],
     [trcmd |-> "START", read |-> FALSE, trtyp |-> "SINGLE_BLOCK"],
     [trcmd |-> "START", read |-> TRUE, trtyp |-> "SINGLE_BLOCK"],
     [trcmd |-> "START", read |-> TRUE, trtyp |-> "MULTIPLE_BLOCK"]}

mci_irq_update(s) == [s EXCEPT !.irq = (s.sr \cap s.imr # {})]

mci_pdc_do_read_rcr(s) ==
    LET len0 == IF "PDCFBYTE" \in s.mr THEN s.rcr ELSE s.rcr * 4
        len == IF s.rd_bytes_left # BLKLEN_MULTIBLOCK_UNLIMITED /\ len0 > s.rd_bytes_left
               THEN s.rd_bytes_left ELSE len0
    IN  [s EXCEPT !.rcr = @ - (IF "PDCFBYTE" \in s.mr THEN len ELSE len \div 4),
                  !.rd_bytes_left = IF @ # BLKLEN_MULTIBLOCK_UNLIMITED THEN @ - len ELSE @,
                  !.sd_bytes = @ + len]

\* the tail of mci_pdc_do_read: end of transfer, then end of the buffers
PdcReadEnd(s) ==
    IF s.rcr = 0 /\ s.rncr = 0
    THEN [s EXCEPT !.sr = (@ \cup {"RXBUFF"}) \cup
                          (IF s.rd_bytes_left # 0 THEN {"RXRDY"} ELSE {}),
                   !.rx_dma_enabled = FALSE]
    ELSE s

PdcReadDone(s) ==
    PdcReadEnd(IF s.rd_bytes_left = 0
               THEN [s EXCEPT !.sr = @ \ {"DTIP", "RXRDY"}] ELSE s)

\* the switch to the next buffer
PdcReadNext(s) ==
    IF s.rcr = 0 /\ s.rncr # 0
    THEN IF s.rd_bytes_left # 0
         THEN mci_pdc_do_read_rcr([s EXCEPT !.rcr = s.rncr, !.rncr = 0])
         ELSE [s EXCEPT !.rcr = s.rncr, !.rncr = 0]
    ELSE s

PdcReadFirst(s) ==
    PdcReadNext(IF s.rcr = 0 THEN [s EXCEPT !.sr = @ \cup {"ENDRX"}] ELSE s)

\* BLKE is set when the last byte has been transferred
PdcReadSetsBlkeMut(s) ==
    IF PdcReadFirst(IF s.rcr # 0 THEN mci_pdc_do_read_rcr(s) ELSE s).rd_bytes_left = 0
    THEN [PdcReadDone(PdcReadFirst(IF s.rcr # 0 THEN mci_pdc_do_read_rcr(s) ELSE s))
            EXCEPT !.sr = @ \cup {"BLKE"}]
    ELSE PdcReadDone(PdcReadFirst(IF s.rcr # 0 THEN mci_pdc_do_read_rcr(s) ELSE s))

mci_pdc_do_read(s) ==
    PdcReadDone(PdcReadFirst(IF s.rcr # 0 THEN mci_pdc_do_read_rcr(s) ELSE s))

mci_tr_length(s, trtyp) ==
    IF trtyp = "SINGLE_BLOCK" THEN s.blklen
    ELSE IF s.bcnt = 0 THEN BLKLEN_MULTIBLOCK_UNLIMITED
    ELSE s.blklen * s.bcnt

StartRead(s) ==
    IF "PDCMODE" \in s.mr /\ s.rx_dma_enabled THEN mci_pdc_do_read(s)
    ELSE IF "PDCMODE" \notin s.mr THEN [s EXCEPT !.sr = @ \cup {"RXRDY"}]
    ELSE s

mci_tr_start_read(s, trtyp) ==
    StartRead([s EXCEPT !.rd_bytes_left = mci_tr_length(s, trtyp)])

\* tx_dma_enabled is never set: mci_pdc_do_write is not reached
mci_tr_start_write(s, trtyp) ==
    [s EXCEPT !.wr_bytes_left = mci_tr_length(s, trtyp),
              !.wr_bytes_blk = 0,
              !.sr = (@ \ {"NOTBUSY"}) \cup
                     (IF "PDCMODE" \notin s.mr THEN {"TXRDY"} ELSE {})]

mci_tr_stop(s) ==
    [s EXCEPT !.rd_bytes_left = 0, !.wr_bytes_left = 0, !.wr_bytes_blk = 0,
              !.sr = (@ \ {"DTIP", "RXRDY", "TXRDY"}) \cup {"NOTBUSY"}]

DoCommandAborts(s, cmd) ==
    /\ cmd.trcmd # "NONE"
    /\ "PDCMODE" \in s.mr /\ "PDCFBYTE" \notin s.mr /\ s.blklen % 4 # 0

DoTransfer(s, cmd) ==
    IF cmd.trcmd = "START"
    THEN IF cmd.read THEN mci_tr_start_read(s, cmd.trtyp)
                     ELSE mci_tr_start_write(s, cmd.trtyp)
    ELSE mci_tr_stop(s)

mci_do_command(s, cmd) ==
    mci_irq_update(
      [(IF cmd.trcmd # "NONE"
        THEN DoTransfer([s EXCEPT !.sr = ((@ \ {"CMDRDY"}) \ {"OVRE", "UNRE"}) \cup {"DTIP"}],
                        cmd)
        ELSE s) EXCEPT !.sr = @ \cup {"CMDRDY"}])

RdrAborts(s) ==
    s.rd_bytes_left = 0 \/ "PDCMODE" \in s.mr \/ "RXRDY" \notin s.sr

\* the number of bytes an RDR read or a TDR write moves
WordLen(left) ==
    IF left # BLKLEN_MULTIBLOCK_UNLIMITED /\ left <= 4 THEN left ELSE 4

mci_rdr(s) ==
    mci_irq_update(
      [s EXCEPT !.rd_bytes_left = @ - WordLen(s.rd_bytes_left),
                !.sd_bytes = @ + WordLen(s.rd_bytes_left),
                !.sr = IF s.rd_bytes_left - WordLen(s.rd_bytes_left) = 0
                       THEN (@ \ {"RXRDY"}) \ {"DTIP"}
                       ELSE @ \cup {"RXRDY"}])

TdrAborts(s) ==
    s.wr_bytes_left = 0 \/ "PDCMODE" \in s.mr \/ "TXRDY" \notin s.sr

TdrBlock(s) ==
    IF s.wr_bytes_blk >= s.blklen
    THEN [s EXCEPT !.wr_bytes_blk = @ - s.blklen, !.sr = @ \cup {"BLKE"}]
    ELSE s

TdrLast(s) ==
    IF s.wr_bytes_left = 0
    THEN [s EXCEPT !.sr = (@ \cup {"NOTBUSY", "BLKE"}) \ {"DTIP"}, !.wr_bytes_blk = 0]
    ELSE s

TdrReady(s) == mci_irq_update([s EXCEPT !.sr = @ \cup {"TXRDY"}])

mci_tdr(s) ==
    TdrReady(TdrLast(TdrBlock(
      [s EXCEPT !.sr = @ \ {"TXRDY"},
                !.wr_bytes_left = @ - WordLen(s.wr_bytes_left),
                !.wr_bytes_blk = @ + WordLen(s.wr_bytes_left)])))

mci_read_SR(s) ==
    mci_irq_update([s EXCEPT !.sr = @ \ {"BLKE", "DCRCE", "DTOE", "SDIOIRQA", "SDIOIRQB"}])

mci_reset_registers(s) ==
    [s EXCEPT !.mr = {}, !.blklen = 0, !.bcnt = 0,
              !.sr = {"CMDRDY", "TXRDY", "NOTBUSY", "ENDRX", "ENDTX", "RXBUFF", "TXBUFE"},
              !.imr = {}, !.mcien = FALSE,
              !.rd_bytes_left = 0, !.wr_bytes_left = 0]

DmaRxAborts(s) == s.rd_bytes_left # 0 /\ "PDCMODE" \notin s.mr

mci_dma_rx_start(s) ==
    IF s.rd_bytes_left # 0
    THEN mci_pdc_do_read([s EXCEPT !.rx_dma_enabled = TRUE])
    ELSE [s EXCEPT !.rx_dma_enabled = TRUE]

mci_dma_rx_stop(s) == [s EXCEPT !.rx_dma_enabled = FALSE]

\* at91_pdc_generic_set_register on PDC_RCR and PDC_RNCR, with the MCI's ops
PdcCountFlags(s, value) ==
    [s EXCEPT !.sr = (IF value # 0 THEN @ \ {"ENDRX", "RXBUFF"} ELSE @) \cup
                     (IF s.rxten /\ s.rcr = 0
                      THEN {"ENDRX"} \cup (IF s.rncr = 0 THEN {"RXBUFF"} ELSE {})
                      ELSE {})]

mci_pdc_write_RCR(s, value) ==
    IF s.rxten
    THEN IF value # 0
         THEN mci_dma_rx_start(mci_irq_update(PdcCountFlags([s EXCEPT !.rcr = value], value)))
         ELSE mci_dma_rx_stop(mci_irq_update(PdcCountFlags([s EXCEPT !.rcr = value], value)))
    ELSE mci_irq_update(PdcCountFlags([s EXCEPT !.rcr = value], value))

mci_pdc_write_RNCR(s, value) ==
    mci_irq_update(PdcCountFlags([s EXCEPT !.rncr = value], value))

\* PDC_PTCR with RXTEN (enable) or RXTDIS
mci_pdc_write_PTCR(s, enable) ==
    IF enable THEN mci_dma_rx_start([s EXCEPT !.rxten = TRUE])
    ELSE mci_dma_rx_stop([s EXCEPT !.rxten = FALSE])

MciInit ==
    /\ mci = [sr |-> {"CMDRDY", "TXRDY", "NOTBUSY", "ENDRX", "ENDTX", "RXBUFF", "TXBUFE"},
              mr |-> {}, blklen |-> 0, bcnt |-> 0, imr |-> {}, irq |-> FALSE,
              mcien |-> FALSE, rd_bytes_left |-> 0, wr_bytes_left |-> 0,
              wr_bytes_blk |-> 0, rx_dma_enabled |-> FALSE,
              rcr |-> 0, rncr |-> 0, rxten |-> FALSE, sd_bytes |-> 0]

\* the state a handler starts from: it has read nothing from the card yet
MciEntry == [mci EXCEPT !.sd_bytes = 0]

MciCommit(s) == mci' = s

mci_mmio_write_CR(value) ==
    MciCommit(IF "SWRST" \in value THEN mci_reset_registers(MciEntry)
              ELSE [MciEntry EXCEPT !.mcien = ("MCIEN" \in value)])

mci_mmio_write_MR(value, blklen) ==
    MciCommit([MciEntry EXCEPT !.mr = value, !.blklen = blklen])

mci_mmio_write_BLKR(bcnt, blklen) ==
    MciCommit([MciEntry EXCEPT !.bcnt = bcnt, !.blklen = blklen])

mci_mmio_write_CMDR(cmd) ==
    /\ mci.mcien /\ "CMDRDY" \in mci.sr
    /\ ~DoCommandAborts(mci, cmd)
    /\ cmd.trcmd = "START" => mci_tr_length(mci, cmd.trtyp) # BLKLEN_MULTIBLOCK_UNLIMITED
    /\ MciCommit(mci_do_command(
                   [MciEntry EXCEPT !.sr = @ \ {"RDIRE", "CMDRDY", "RINDE", "RCRCE",
                                                "RENDE", "RTOE"}], cmd))

mci_mmio_read_RDR ==
    /\ ~RdrAborts(mci)
    /\ MciCommit(mci_rdr(MciEntry))

mci_mmio_write_TDR ==
    /\ ~TdrAborts(mci)
    /\ MciCommit(mci_tdr(MciEntry))

mci_mmio_read_SR == MciCommit(mci_read_SR(MciEntry))

mci_mmio_write_IER(value) ==
    MciCommit(mci_irq_update([MciEntry EXCEPT !.imr = @ \cup value]))

mci_mmio_write_IDR(value) ==
    MciCommit(mci_irq_update([MciEntry EXCEPT !.imr = @ \ value]))

mci_mmio_write_RCR(value) ==
    /\ (mci.rxten /\ value # 0) => ~DmaRxAborts(mci)
    /\ MciCommit(mci_irq_update(mci_pdc_write_RCR(MciEntry, value)))

mci_mmio_write_RNCR(value) ==
    MciCommit(mci_irq_update(mci_pdc_write_RNCR(MciEntry, value)))

mci_mmio_write_PTCR(enable) ==
    /\ enable => ~DmaRxAborts(mci)
    /\ MciCommit(mci_irq_update(mci_pdc_write_PTCR(MciEntry, enable)))

mci_device_reset == MciCommit(mci_reset_registers(MciEntry))

MciStep ==
    \/ \E value \in MciCrVals : mci_mmio_write_CR(value) /\ UNCHANGED otherThanMci
    \/ \E value \in MciMrVals, blklen \in MciBlklens :
          mci_mmio_write_MR(value, blklen) /\ UNCHANGED otherThanMci
    \/ \E bcnt \in MciBcnts, blklen \in MciBlklens :
          mci_mmio_write_BLKR(bcnt, blklen) /\ UNCHANGED otherThanMci
    \/ \E cmd \in MciCmds : mci_mmio_write_CMDR(cmd) /\ UNCHANGED otherThanMci
    \/ mci_mmio_read_RDR /\ UNCHANGED otherThanMci
    \/ mci_mmio_write_TDR /\ UNCHANGED otherThanMci
    \/ mci_mmio_read_SR /\ UNCHANGED otherThanMci
    \/ mci_mmio_write_IER({"RXBUFF"}) /\ UNCHANGED otherThanMci
    \/ mci_mmio_write_IDR({"RXBUFF"}) /\ UNCHANGED otherThanMci
    \/ \E value \in MciCounts : mci_mmio_write_RCR(value) /\ UNCHANGED otherThanMci
    \/ \E value \in MciCounts : mci_mmio_write_RNCR(value) /\ UNCHANGED otherThanMci
    \/ \E enable \in BOOLEAN : mci_mmio_write_PTCR(enable) /\ UNCHANGED otherThanMci
    \/ mci_device_reset /\ UNCHANGED otherThanMci

(***************************************************************************)
(* TC (at91-tc.c): one channel of the timer/counter.                       *)
(*   tc   TcChanState: cmr, sr and imr are the sets of bits that are 1     *)
(*        (bit 14 of CMR is CPCTRG in capture mode and the upper bit of    *)
(*        WAVSEL in waveform mode, bit 13 the lower bit of WAVSEL);        *)
(*        cv, ra, rb, rc, cstep; running: the channel's timer is running   *)
(*   tc_op   the handler that ran last                                     *)
(* A handler that calls abort() has no successor state.                    *)
(***************************************************************************)
CV_MAX == 65535

TcCvs == (0..MaxCv) \cup {CV_MAX}
TcRegVals == {1, 2}
TcRcVals == {2}
TcCmrVals == {{}, {"BIT14"}, {"WAVE"}, {"WAVE", "BIT13"}, {"WAVE", "BIT14"},
              {"WAVE", "BIT13", "BIT14"}, {"WAVE", "BIT14", "CPCDIS"},
              {"WAVE", "BIT14", "CPCSTOP"}}
TcCcrVals == {{"CLKEN"}, {"CLKDIS"}, {"SWTRG"}, {"CLKEN", "SWTRG"}}
TcSrCleared == {"COVFS", "LOVRS", "CPAS", "CPBS", "CPCS", "LDRAS", "LDRBS", "ETRGS"}

Wrap16(v) == v % (CV_MAX + 1)

tc_irq_update(s) == [s EXCEPT !.irq = ((s.sr \cap s.imr) \cap TcSrCleared # {})]

\* the channel's timer is started by tc_clk_start and stopped by tc_clk_stop,
\* and calls tc_timer_tick once per period while it runs
TcTimerFires == tc.running

tc_clk_start(s) == IF "CLKSTA" \in s.sr THEN [s EXCEPT !.running = TRUE] ELSE s

tc_clk_stop(s) == [s EXCEPT !.running = FALSE]

tc_trigger(s) ==
    tc_clk_start(IF "WAVE" \in s.cmr /\ "BIT13" \in s.cmr
                 THEN [s EXCEPT !.cstep = -s.cstep]
                 ELSE [s EXCEPT !.cv = 0])

TickOverflow(s) == IF s.cv = CV_MAX THEN [s EXCEPT !.sr = @ \cup {"COVFS"}] ELSE s

TickCmp(s) == IF "BIT14" \in s.cmr THEN s.rc ELSE CV_MAX

TickStepDir(s) ==
    IF s.cv = TickCmp(s) THEN -1 ELSE IF s.cv = 0 THEN 1 ELSE s.cstep

TickCount(s) ==
    IF "BIT13" \notin s.cmr
    THEN [s EXCEPT !.cv = IF s.cv = TickCmp(s) THEN 0 ELSE Wrap16(s.cv + 1)]
    ELSE [s EXCEPT !.cstep = TickStepDir(s),
                   !.cv = Wrap16(s.cv + TickStepDir(s) + CV_MAX + 1)]

\* the comparison with RB sets CPAS
TickCompareAB(s) ==
    [s EXCEPT !.sr = (@ \cup (IF s.cv = s.ra THEN {"CPAS"} ELSE {}))
                        \cup (IF s.cv = s.rb THEN {"CPAS"} ELSE {})]

TickCompareC(s) ==
    IF s.cv = s.rc
    THEN [s EXCEPT !.sr = (@ \cup {"CPCS"}) \ (IF "CPCDIS" \in s.cmr THEN {"CLKSTA"} ELSE {}),
                   !.running = IF "CPCDIS" \in s.cmr \/ "CPCSTOP" \in s.cmr
                               THEN FALSE ELSE @]
    ELSE s

TickCapture(s) ==
    IF s.cv = s.rc
    THEN [s EXCEPT !.sr = @ \cup {"CPCS"},
                   !.cv = IF "BIT14" \in s.cmr THEN 0 ELSE @]
    ELSE s

tc_timer_tick(s) ==
    tc_irq_update(
      IF "WAVE" \in s.cmr
      THEN TickCompareC(TickCompareAB(TickCount(TickOverflow(s))))
      ELSE TickCapture([TickOverflow(s) EXCEPT !.cv = Wrap16(s.cv + 1)]))

tc_read_SR(s) == tc_irq_update([s EXCEPT !.sr = @ \ TcSrCleared])

CcrEnable(s, value) ==
    IF "CLKEN" \in value /\ "CLKDIS" \notin value
    THEN [s EXCEPT !.sr = @ \cup {"CLKSTA"}] ELSE s

CcrDisable(s, value) ==
    IF "CLKDIS" \in value THEN tc_clk_stop([s EXCEPT !.sr = @ \ {"CLKSTA"}]) ELSE s

tc_write_CCR(s, value) ==
    IF "SWTRG" \in value
    THEN tc_trigger(CcrDisable(CcrEnable(s, value), value))
    ELSE CcrDisable(CcrEnable(s, value), value)

\* the timer is not stopped
tc_reset_registers(s) ==
    [s EXCEPT !.cstep = 1, !.cmr = {}, !.cv = 0, !.ra = 0, !.rb = 0, !.rc = 0,
              !.sr = {}, !.imr = {}]

TcInit ==
    /\ tc = [cmr |-> {}, cv |-> 0, ra |-> 0, rb |-> 0, rc |-> 0, sr |-> {},
             imr |-> {}, irq |-> FALSE, cstep |-> 1, running |-> FALSE]
    /\ tc_op = "none"

TcCommit(s, op) ==
    /\ tc' = s
    /\ tc_op' = op

tc_timer_expires ==
    /\ TcTimerFires
    /\ tc_timer_tick(tc).cv \in TcCvs
    /\ TcCommit(tc_timer_tick(tc), "tick")

tc_mmio_read_SR == TcCommit(tc_read_SR(tc), "read_SR")

tc_mmio_write_CCR(value) == TcCommit(tc_write_CCR(tc, value), "write")

tc_mmio_write_CMR(value) == TcCommit([tc EXCEPT !.cmr = value], "write")

tc_mmio_write_RA(value) ==
    /\ "WAVE" \in tc.cmr
    /\ TcCommit([tc EXCEPT !.ra = value], "write")

tc_mmio_write_RB(value) ==
    /\ "WAVE" \in tc.cmr
    /\ TcCommit([tc EXCEPT !.rb = value], "write")

tc_mmio_write_RC(value) == TcCommit([tc EXCEPT !.rc = Wrap16(value)], "write")

tc_mmio_write_IER(value) ==
    TcCommit(tc_irq_update([tc EXCEPT !.imr = @ \cup value]), "write")

tc_device_reset == TcCommit(tc_reset_registers(tc), "reset")

TcStep ==
    \/ tc_timer_expires /\ UNCHANGED otherThanTc
    \/ tc_mmio_read_SR /\ UNCHANGED otherThanTc
    \/ \E value \in TcCcrVals : tc_mmio_write_CCR(value) /\ UNCHANGED otherThanTc
    \/ \E value \in TcCmrVals : tc_mmio_write_CMR(value) /\ UNCHANGED otherThanTc
    \/ \E value \in TcRegVals : tc_mmio_write_RA(value) /\ UNCHANGED otherThanTc
    \/ \E value \in TcRegVals : tc_mmio_write_RB(value) /\ UNCHANGED otherThanTc
    \/ \E value \in TcRcVals : tc_mmio_write_RC(value) /\ UNCHANGED otherThanTc
    \/ tc_mmio_write_IER({"CPAS", "CPBS"}) /\ UNCHANGED otherThanTc
    \/ tc_device_reset /\ UNCHANGED otherThanTc

(***************************************************************************)
(* Specifications: one peripheral runs, the others stay as constructed.    *)
(***************************************************************************)
Init ==
    /\ AicInit /\ IoxInit /\ UsartInit /\ MultiInit /\ SpiInit /\ TwiInit /\ PmcInit
    /\ MxInit /\ AicStubInit /\ HdPdcInit /\ PioInit
    /\ PitInit /\ DbguInit /\ MciInit /\ TcInit

AicNext == AicStep

SpecAic == Init /\ [][AicNext]_vars

UsartNext == UsartStep

SpecUsart == Init /\ [][UsartNext]_vars

IoxNext == IoxStep

SpecIox == Init /\ [][IoxNext]_vars

MultiNext == MultiStep

SpecMulti == Init /\ [][MultiNext]_vars

ConnNext == ConnStep

SpecConn == Init /\ [][ConnNext]_vars

SpiNext == SpiStep

SpecSpi == Init /\ [][SpiNext]_vars

TwiTxNext == TwiTxStep

SpecTwiTx == Init /\ [][TwiTxNext]_vars

TwiRxNext == TwiRxStep

SpecTwiRx == Init /\ [][TwiRxNext]_vars

PmcNext == PmcStep

SpecPmc == Init /\ [][PmcNext]_vars

\* the AIC with nested acknowledges to any depth: line 1 alone is driven
AicStackNext ==
    \/ \E level \in BOOLEAN : aic_irq_handle(1, level) /\ UNCHANGED otherThanAic
    \/ aic_mmio_read_IVR /\ UNCHANGED otherThanAic
    \/ aic_mmio_write_IVR /\ UNCHANGED otherThanAic
    \/ aic_mmio_write_EOICR /\ UNCHANGED otherThanAic
    \/ \E value \in AllLines : aic_mmio_write_IECR(value) /\ UNCHANGED otherThanAic
    \/ \E value \in DcrVals : aic_mmio_write_DCR(value) /\ UNCHANGED otherThanAic
    \/ aic_device_reset /\ UNCHANGED otherThanAic

SpecAicStack == Init /\ [][AicStackNext]_vars

AicStubNext == AicStubStep

SpecAicStub == Init /\ [][AicStubNext]_vars

HdPdcNext == HdPdcStep

SpecHdPdc == Init /\ [][HdPdcNext]_vars

PioNext == PioStep

SpecPio == Init /\ [][PioNext]_vars

PitNext == PitStep

SpecPit == Init /\ [][PitNext]_vars

DbguNext == DbguStep

SpecDbgu == Init /\ [][DbguNext]_vars

MciNext == MciStep

SpecMci == Init /\ [][MciNext]_vars

TcNext == TcStep

SpecTc == Init /\ [][TcNext]_vars

UsartRxNext == UsartRxStep

SpecUsartRx == Init /\ [][UsartRxNext]_vars

TwiPdcNext == TwiPdcStep
SpecTwiPdc == Init /\ [][TwiPdcNext]_vars

UsartPdcNext == UsartPdcStep
SpecUsartPdc == Init /\ [][UsartPdcNext]_vars

MxNext == MxStep

SpecMatrix == Init /\ [][MxNext]_vars


(***************************************************************************)
(* Claims about the AIC (specification SpecAic).                           *)
(***************************************************************************)
\* the lines an IVR read chooses among: 1 .. 31, pending, enabled in IMR and
\* not fast-forced
AicEligible == {i \in Sources : i \in aic_reg_ipr /\ i \in aic_reg_imr /\ i \notin aic_reg_ffsr}

SmrPriority(i) == aic_reg_smr[i] % 8

\* line i has the greatest SMR priority among the eligible lines and the
\* lowest index among those sharing it
AicSelected(i) ==
    /\ i \in AicEligible
    /\ \A j \in AicEligible :
          \/ SmrPriority(j) < SmrPriority(i)
          \/ SmrPriority(j) = SmrPriority(i) /\ i <= j

\* this step is an IVR read taken with protect mode off
AckingIvrRead == aic_op' = "read_IVR" /\ ~aic_abort' /\ "PROT" \notin aic_reg_dcr

\* C1: an IVR read with protect mode off and at least one eligible line
\* returns SVR[i] of the eligible line i of greatest SMR priority, the lowest
\* index winning among equal priorities.
C1_IvrReturnsHighestPending ==
    [][ (AckingIvrRead /\ AicEligible # {})
            => \E i \in AicEligible : AicSelected(i) /\ aic_ret' = aic_reg_svr[i] ]_vars

\* C1 witness: lines 1 and 2 were both eligible with equal priorities and
\* different vectors, and the read returned the vector of line 1.
C1_Witness ==
    /\ aic_op = "read_IVR" /\ "PROT" \notin aic_reg_dcr
    /\ aic_reg_svr[1] = SvrOf(1) /\ aic_reg_svr[2] = SvrOf(2)
    /\ aic_ret = SvrOf(1)
    /\ 2 \in aic_reg_ipr /\ 2 \in aic_reg_imr /\ 2 \notin aic_reg_ffsr
    /\ SmrPriority(1) = SmrPriority(2)

\* C2: an IVR read with protect mode off clears the IPR bit of a pending
\* edge-triggered non-fast line exactly when that line is the one it
\* acknowledges, and leaves the IPR bit of every pending level-triggered
\* line (the acknowledged one included) as it is.
C2_EdgeClearedByItsAck ==
    [][ AckingIvrRead =>
          \A i \in Sources :
             i \in aic_reg_ipr =>
                IF aic_irq_is_edge_triggered(aic_reg_smr, i) /\ i \notin aic_reg_ffsr
                THEN (i \notin aic_reg_ipr') <=> AicSelected(i)
                ELSE aic_irq_is_edge_triggered(aic_reg_smr, i) \/ i \in aic_reg_ipr' ]_vars

\* C2 witness: the read acknowledged edge-triggered line 1 and cleared it
\* while edge-triggered line 2, eligible as well, stayed pending.
C2_Witness ==
    /\ aic_op = "read_IVR" /\ "PROT" \notin aic_reg_dcr
    /\ aic_reg_svr[1] = SvrOf(1) /\ aic_ret = SvrOf(1)
    /\ aic_irq_is_edge_triggered(aic_reg_smr, 1) /\ 1 \notin aic_reg_ipr
    /\ aic_irq_is_edge_triggered(aic_reg_smr, 2)
    /\ 2 \in aic_reg_ipr /\ 2 \in aic_reg_imr /\ 2 \notin aic_reg_ffsr

\* C3: from an IVR read that acknowledges an interrupt (protect mode off)
\* until the next EOICR write, across every other operation, the nIRQ output
\* is de-asserted.
C3_NirqLowUntilEoi == aic_acked => ~aic_irq


(***************************************************************************)
(* Claims about the USART and its PDC channel (specification SpecUsart).   *)
(***************************************************************************)
\* C4: with the receiver enabled, once RCR = N > 0 is written with RNCR = 0
\* and RXTEN is enabled, injecting N bytes by DATA_IN frames leaves RCR = 0
\* and ENDRX set, and bytes injected beyond the N (RNCR still 0) leave RXBUFF
\* set.
C4_TransferEndsAfterNBytes ==
    (pdc_rx_armed # <<>> /\ pdc_rx_armed[1] = 0) =>
        /\ usart.rcr = 0
        /\ "ENDRX" \in usart.csr
        /\ (pdc_rx_armed[2] /\ usart.rncr = 0) => "RXBUFF" \in usart.csr

\* an armed transfer has received its N bytes and one more
C4_Witness ==
    /\ pdc_rx_armed = <<0, TRUE>>
    /\ usart.rcr = 0 /\ usart.rncr = 0
    /\ {"ENDRX", "RXBUFF"} \subseteq usart.csr
    /\ cli_next = MaxBytes + 1

IsDataIn(req) == req # <<>> /\ req[1].cat = IOX_CAT_DATA /\ req[1].id = IOX_CID_DATA_IN
CountWritten == us_op \in {"RCR", "RNCR", "TCR", "TNCR"}
RxCountWritten == us_op \in {"RCR", "RNCR"}
TxCountWritten == us_op \in {"TCR", "TNCR"}

\* C5 as stated: immediately after a write to RCR, RNCR, TCR or TNCR, ENDRX
\* is set exactly when RCR = 0 and RXTEN is set, RXBUFF exactly when RCR = 0,
\* RNCR = 0 and RXTEN is set, and ENDTX / TXBUFE likewise for TCR, TNCR, TXTEN.
C5_FlagsExactlyWhenChannelDone ==
    CountWritten =>
        /\ "ENDRX" \in usart.csr <=> (usart.rcr = 0 /\ "RXTEN" \in usart.ptsr)
        /\ "RXBUFF" \in usart.csr <=>
               (usart.rcr = 0 /\ usart.rncr = 0 /\ "RXTEN" \in usart.ptsr)
        /\ "ENDTX" \in usart.csr <=> (usart.tcr = 0 /\ "TXTEN" \in usart.ptsr)
        /\ "TXBUFE" \in usart.csr <=>
               (usart.tcr = 0 /\ usart.tncr = 0 /\ "TXTEN" \in usart.ptsr)

\* C5 as the helper behaves: immediately after a write to RCR or RNCR, ENDRX
\* is set if RCR = 0 and RXTEN is set, and RXBUFF too if also RNCR = 0; a
\* non-zero write with RXTEN clear leaves both flags clear.  The same holds
\* after a write to TCR or TNCR for ENDTX, TXBUFE, TCR, TNCR and TXTEN.  (A
\* write of zero with the channel disabled leaves the flags as they were.)
C5_FlagsSetWhenChannelDone ==
    /\ RxCountWritten =>
          /\ (usart.rcr = 0 /\ "RXTEN" \in usart.ptsr) => "ENDRX" \in usart.csr
          /\ (usart.rcr = 0 /\ usart.rncr = 0 /\ "RXTEN" \in usart.ptsr)
                 => "RXBUFF" \in usart.csr
          /\ ("RXTEN" \notin usart.ptsr /\ usart[IF us_op = "RCR" THEN "rcr" ELSE "rncr"] # 0)
                 => usart.csr \cap {"ENDRX", "RXBUFF"} = {}
    /\ TxCountWritten =>
          /\ (usart.tcr = 0 /\ "TXTEN" \in usart.ptsr) => "ENDTX" \in usart.csr
          /\ (usart.tcr = 0 /\ usart.tncr = 0 /\ "TXTEN" \in usart.ptsr)
                 => "TXBUFE" \in usart.csr
          /\ ("TXTEN" \notin usart.ptsr /\ usart[IF us_op = "TCR" THEN "tcr" ELSE "tncr"] # 0)
                 => usart.csr \cap {"ENDTX", "TXBUFE"} = {}

\* a write of RCR that the armed channel filled at once from buffered bytes
C5_Witness ==
    /\ us_op = "RCR"
    /\ "RXTEN" \in usart.ptsr /\ usart.rcr = 0 /\ usart.rncr = 0
    /\ {"ENDRX", "RXBUFF"} \subseteq usart.csr
    /\ "RXRDY" \in usart.csr

\* C6: with the receiver enabled and receive DMA off, an RHR read taken while
\* RXRDY is set returns the oldest byte not yet read (the byte RHR holds), so
\* that k reads return b1..bk; RXRDY is set again after the read exactly when
\* a further byte was buffered.
C6_RhrReadsInOrder ==
    [][(us_op' = "read_RHR" /\ usart.rx_enabled /\ ~usart.rx_dma_enabled
          /\ "RXRDY" \in usart.csr)
         => /\ us_ret' = usart.rhr
            /\ "RXRDY" \in usart'.csr <=> usart.rcvbuf # <<>>]_vars

\* C7: a byte arriving by DATA_IN while RXRDY is set and the receiver is
\* enabled sets OVRE.
C7_OverrunSetsOvre ==
    [][(IsDataIn(iox_req') /\ iox_req'[1].payload # <<>>
          /\ usart.rx_enabled /\ "RXRDY" \in usart.csr)
         => "OVRE" \in usart'.csr]_vars

\* the reply to a DATA_IN request
Reply(seq, status) == Frame(seq, IOX_CAT_DATA, IOX_CID_DATA_IN, U32Bytes(status))
IsSuffix(t, all) == \E k \in 0 .. Len(all) : t = SubSeq(all, k + 1, Len(all))

\* C8: every DATA/DATA_IN frame is answered by exactly one frame with the
\* request's seq, cat and id and a 32-bit status: 0 when the receiver is
\* enabled, the payload then being appended to the receive buffer (from
\* whose head bytes are taken in order), ENXIO when it is disabled, nothing
\* then being enqueued.
C8_DataInAnsweredOnce ==
    [][IsDataIn(iox_req') =>
         LET seq == iox_req'[1].seq
             payload == iox_req'[1].payload
         IN  IF usart.rx_enabled
             THEN /\ iox_sent' = <<Reply(seq, 0)>>
                  /\ IsSuffix(usart'.rcvbuf, usart.rcvbuf \o payload)
                  /\ (payload # <<>> /\ usart.rcvbuf = <<>> /\ ~usart.rx_dma_enabled
                         /\ "RXRDY" \notin usart.csr)
                        => /\ usart'.rhr = Head(payload)
                           /\ "RXRDY" \in usart'.csr
                           /\ usart'.rcvbuf = Tail(payload)
             ELSE /\ iox_sent' = <<Reply(seq, ENXIO)>>
                  /\ usart' = usart]_vars

\* a two-byte frame was accepted: one byte in RHR, one in the buffer
C8_Witness ==
    /\ IsDataIn(iox_req) /\ iox_req[1].seq = 5 /\ iox_req[1].payload = <<1, 2>>
    /\ iox_sent = <<Reply(5, 0)>>
    /\ usart.rx_enabled /\ "RXRDY" \in usart.csr
    /\ usart.rhr = 1 /\ usart.rcvbuf = <<2>> /\ cli_next = 3

IsOutbound(seq) == (seq \div SeqOutBit) % 2 = 1

RECURSIVE StreamOf(_)
StreamOf(frames) ==
    IF frames = <<>> THEN <<>> ELSE FrameBytes(Head(frames)) \o StreamOf(Tail(frames))

\* the frames the handler is given when the stream of these frames arrives
\* at a newly constructed server in a single read
SingleRead(frames) == Received(EmptyBuffer, 0, StreamOf(frames), <<>>).dispatched

\* C9: IOX framing under chunking.  Once every byte of a stream of
\* well-formed frames has arrived and has been read, in whatever pieces the
\* socket delivered it, the handler has been given the same frames (seq, cat,
\* id, len and payload of each, in the same order) as when the stream arrives
\* in a single read.
C9_ChunkedEqualsSingleRead ==
    (~iox_cut /\ iox_stream = <<>> /\ iox_sock = <<>>)
        => iox_dispatched = SingleRead(iox_frames)


(***************************************************************************)
(* Claims about the connections of an IOX server (specification SpecConn). *)
(***************************************************************************)
\* the step is the arrival of a connection (the one numbered iox_conns')
Arrival == iox_conns' = iox_conns + 1

RECURSIVE Payloads(_)
Payloads(frames) ==
    IF frames = <<>> THEN <<>> ELSE Head(frames).payload \o Payloads(Tail(frames))

\* ceil(n / 255)
FramesFor(n) == (n + MaxFrameLen - 1) \div MaxFrameLen

SelectedBits(s) == num_transmit_bits(s, pcs_to_nr(s, s.mr.pcs))

\* C13: with no IOX client attached, master mode and the selected CSR
\* configured for 8-bit units, a TDR write of d that follows the read of
\* the data received before (RDRF clear) sets RDRF and leaves d in bits
\* 15..0 of RDR, which is what the next RDR read returns.
C13_LoopbackReturnsWritten ==
    [][(/\ spi_op' = "write_TDR"
        /\ ~spi.client /\ spi.mr.mstr /\ ~spi.mr.ps
        /\ SelectedBits(spi) = 8
        /\ "RDRF" \notin spi.sr)
       => (/\ "RDRF" \in spi'.sr
           /\ spi'.rdr % HalfWord = spi'.tdr % HalfWord)]_vars

WaitCompletes == spi.wait_ty # "NONE" /\ spi'.wait_ty = "NONE"

\* C14: with an IOX client attached, a waiting master transfer of n units
\* completes (RDR and RDRF updated, CPU resumed) on a DATA_IN frame only
\* when the client has sent at least n units since the transfer started,
\* and RDR then holds the unit the client sent; it completes as soon as the
\* client has sent that much; what is left in the receive buffer is
\* dropped, and a DATA_IN frame that arrives while no transfer is waiting
\* changes nothing.
C14_CompletesOnClientUnits ==
    [][(spi_op' = "receive")
       => (/\ spi.wait_ty = "NONE" => spi' = spi
           /\ (WaitCompletes /\ ~spi'.abort)
                  => (/\ Len(spi_got') >= UnitSize * spi.wait_n
                      /\ spi'.rdr % HalfWord = UnitAt(spi_got', spi.wait_n - 1).data
                      /\ "RDRF" \in spi'.sr
                      /\ ~spi'.paused
                      /\ spi'.rcvbuf = <<>>)
           /\ (spi.wait_ty # "NONE" /\ Len(spi_got') >= UnitSize * spi.wait_n)
                  => (spi'.wait_ty = "NONE" \/ spi'.abort))]_vars

(***************************************************************************)
(* TWI                                                                     *)
(***************************************************************************)
IsDataOut(frame) == frame.cat = IOX_CAT_DATA /\ frame.id = IOX_CID_DATA_OUT

\* one CTRL_START frame, DATA_OUT frames that carry bytes, one CTRL_STOP frame
IsBurst(sent, bytes) ==
    /\ Len(sent) >= 3
    /\ sent[1].cat = IOX_CAT_DATA /\ sent[1].id = IOX_CID_CTRL_START
    /\ sent[Len(sent)].cat = IOX_CAT_DATA /\ sent[Len(sent)].id = IOX_CID_CTRL_STOP
    /\ \A i \in 2 .. Len(sent) - 1 : IsDataOut(sent[i])
    /\ Payloads(SubSeq(sent, 2, Len(sent) - 1)) = bytes

NoDataOut(sent) == \A i \in DOMAIN sent : ~IsDataOut(sent[i])

\* C15: the bytes written to THR since the last expiry of the
\* character-transmit timer are emitted at the expiry as one CTRL_START
\* frame, DATA_OUT frames carrying them in write order and one CTRL_STOP
\* frame, and no other step emits a DATA_OUT frame; so no byte is lost or
\* emitted twice.
C15_ThrBundled ==
    [][/\ twi_op' = "expiry" => IsBurst(twi_sent', twi_thr)
       /\ twi_op' # "expiry" => NoDataOut(twi_sent')]_vars

\* C15 as amended: the same at every expiry with an IOX client attached; at
\* an expiry with no client attached nothing is emitted.
C15_ThrBundledToClient ==
    [][/\ (twi_op' = "expiry" /\ twi.client) => IsBurst(twi_sent', twi_thr)
       /\ (twi_op' = "expiry" /\ ~twi.client) => twi_sent' = <<>>
       /\ twi_op' # "expiry" => NoDataOut(twi_sent')]_vars

\* the second burst to a client went out, with three bundled bytes
C15_Witness ==
    /\ twi_op = "expiry" /\ twi.client
    /\ twi.seq = SeqOutBit + 6
    /\ Len(twi_sent) = 3
    /\ Len(twi_sent[2].payload) = 3

\* C16: with RX DMA disabled (as it is throughout), an RHR read taken while
\* RXRDY is set returns the oldest injected byte not yet read (the byte RHR
\* holds), and RXRDY is set again after the read exactly when a further
\* byte was buffered, so that k reads return the k bytes in order.
C16_TwiRhrReadsInOrder ==
    [][(twi_op' = "read_RHR" /\ "RXRDY" \in twi.sr)
         => /\ twi_ret' = twi.rhr
            /\ "RXRDY" \in twi'.sr <=> twi.rcvbuf # <<>>]_vars

(***************************************************************************)
(* PMC                                                                     *)
(***************************************************************************)
IsMckrWrite(op) == op[1] = "MCKR"

\* what C17 says of the writes of MCKR: one that changes the frequency
\* invokes the callback, one that repeats the value written just before
\* does not
MckrPair ==
    /\ (IsMckrWrite(pmc_op') /\ pmc'.freq # pmc.freq) => pmc_called'
    /\ (IsMckrWrite(pmc_op) /\ pmc_op' = pmc_op) => ~pmc_called'

\* C17: a step invokes the master-clock-change callback only if the
\* frequency computed by it differs from the frequency last delivered to
\* the callback; the second of two consecutive writes of the same MCKR
\* value never invokes it, and a write that changes the frequency does.
C17_CallbackOnlyOnChange ==
    [][/\ pmc_called' => pmc'.freq # pmc_delivered
       /\ MckrPair]_vars

\* C17 as amended: a device reset forgets the frequency delivered, so that
\* the reset, or the first write after it that finds the selected source
\* ready, delivers the frequency again even when it is the one delivered
\* before the reset.
C17_CallbackOnlyOnChangeSinceReset ==
    [][/\ pmc_called' => pmc'.freq # (IF pmc_op' = <<"reset">> THEN 0 ELSE pmc_since)
       /\ MckrPair]_vars

\* the main clock was selected and delivered, and MCKR was written again
\* without a call
C17_Witness ==
    /\ IsMckrWrite(pmc_op) /\ pmc_op[2].css = 1 /\ pmc_op[2].pres = 0
    /\ ~pmc_called
    /\ pmc.freq = AT91_PMC_MCK /\ pmc_delivered = AT91_PMC_MCK
    /\ pmc_writes = 3

SourceReady ==
    CASE pmc.mckr.css = 0 -> TRUE
      [] pmc.mckr.css = 1 -> "MOSCS" \in pmc.sr
      [] pmc.mckr.css = 2 -> "LOCKA" \in pmc.sr
      [] pmc.mckr.css = 3 -> "LOCKB" \in pmc.sr

\* C18: LOCKA (LOCKB) is set in PMC_SR only while PLLAR (PLLBR) holds a
\* non-zero divider and a non-zero multiplier, and MCKRDY only while the
\* source selected by MCKR.CSS is ready.
C18_ReadyOnlyWhenValid ==
    /\ "LOCKA" \in pmc.sr => (pmc.plla.div # 0 /\ pmc.plla.mul # 0)
    /\ "LOCKB" \in pmc.sr => (pmc.pllb.div # 0 /\ pmc.pllb.mul # 0)
    /\ "MCKRDY" \in pmc.sr => SourceReady

(***************************************************************************)
(* Bus matrix and boot memory                                              *)
(***************************************************************************)
\* the window is aliased to region t and to no other region: exactly the
\* alias of t is enabled, so a read at any offset returns t's byte there
AliasedTo(s, mem, t) ==
    /\ s.mem_boot_enabled = {t}
    /\ \A o \in Offsets : BootmemReads(s, mem, o) = {mem[t][o]}

\* there is an MRCR write after which the window is aliased to t only
Selectable(t) ==
    \E value \in MrcrVals :
        LET b == matrix_write_MRCR(Board, value)
        IN  ~b.matrix.abort /\ AliasedTo(b.soc, sys_mem, t)

\* the region REMAP = 0 selects: the one the BMS pin names
BmsRegion == IF matrix.bms THEN AT91_BOOTMEM_ROM ELSE AT91_BOOTMEM_EBI_NCS0

\* C19 as stated (bootmem aliasing): for each target in {ROM, SRAM0,
\* EBI_NCS0} there is a Matrix MRCR write after which the bootmem window is
\* aliased to that target and to no other region, so that a read in the
\* window returns the same byte as a read of the target at the same offset.
C19_EveryTargetSelectable ==
    ~matrix.abort => \A t \in BootmemRegions : Selectable(t)

\* C19 as amended (bootmem aliasing): for SRAM0 and for the region the BMS
\* pin selects (EBI_NCS0 with BMS = 0 as built, ROM with BMS = 1) there is a
\* Matrix MRCR write after which the bootmem window is aliased to that
\* target and to no other region; every MRCR write that does not abort
\* leaves the window aliased to exactly one of these two, and a read in the
\* window returns the byte of that target at the same offset.
C19_BmsTargetsSelectable ==
    /\ ~matrix.abort =>
          \A t \in {AT91_BOOTMEM_SRAM0, BmsRegion} : Selectable(t)
    /\ (mx_op = "write_MRCR" /\ ~matrix.abort) =>
          /\ soc.mem_boot_target =
                (IF matrix.reg_mrcr = MRCR_RCB0 + MRCR_RCB1
                 THEN AT91_BOOTMEM_SRAM0 ELSE BmsRegion)
          /\ AliasedTo(soc, sys_mem, soc.mem_boot_target)
    /\ mx_op = "read_bootmem" =>
          \E o \in Offsets : mx_ret = sys_mem[soc.mem_boot_target][o]

\* the window was remapped to SRAM0, SRAM0 was written, and the byte is
\* read back through the window
C19_Witness ==
    /\ mx_op = "read_bootmem"
    /\ matrix.reg_mrcr = MRCR_RCB0 + MRCR_RCB1
    /\ soc.mem_boot_enabled = {AT91_BOOTMEM_SRAM0}
    /\ mx_ret = 165
    /\ sys_mem[AT91_BOOTMEM_EBI_NCS0][0] = 60

(***************************************************************************)
(* AIC: spurious interrupts                                                *)
(***************************************************************************)
\* no line is pending and enabled, and no line is fast-forced
NothingToServe == aic_reg_ipr \cap aic_reg_imr = {} /\ aic_reg_ffsr = {}

\* the stack after is the stack before with one entry on top
PushedOne == Len(aic_irq_stack') = Len(aic_irq_stack) + 1
             /\ SubSeq(aic_irq_stack', 1, Len(aic_irq_stack)) = aic_irq_stack

\* C20 (AIC spurious interrupt): with no line pending and enabled and no fast
\* forcing, reading IVR returns the SPU register value and pushes exactly one
\* in-service stack entry whose priority is 8; the EOICR write that follows
\* removes the top entry, which leaves the stack as it was before the read.
C20_SpuriousPushesPrio8 ==
    [][/\ (aic_op' = "read_IVR" /\ ~aic_abort' /\ NothingToServe) =>
              /\ aic_ret' = aic_reg_spu
              /\ PushedOne
              /\ aic_irq_stack'[Len(aic_irq_stack')].pri = IRQ_PRIO_SPURIOUS
       /\ (aic_op' = "write_EOICR" /\ Len(aic_irq_stack) > 0) =>
              aic_irq_stack' = SubSeq(aic_irq_stack, 1, Len(aic_irq_stack) - 1)
      ]_vars

(***************************************************************************)
(* AIC: protect mode                                                       *)
(***************************************************************************)
\* the vector an IVR read returns: SVR of the selected line, SPU with none
IsVector(v) ==
    IF AicEligible = {} THEN v = aic_reg_spu
    ELSE \E i \in AicEligible : AicSelected(i) /\ v = aic_reg_svr[i]

\* the entry an acknowledge pushes: that of the selected line, or the spurious one
IsAckEntry(e) ==
    IF AicEligible = {}
    THEN <<e>> = aic_irq_stack_push(<<>>, IRQ_NUM_SPURIOUS, IRQ_PRIO_SPURIOUS)
    ELSE \E i \in AicEligible :
            AicSelected(i) /\ <<e>> = aic_irq_stack_push(<<>>, i, SmrPriority(i))

\* the state changes of an acknowledge: one entry pushed, the selected line
\* cleared from IPR when it is edge-triggered, nIRQ and nFIQ recomputed
AckEffects ==
    /\ PushedOne
    /\ IsAckEntry(aic_irq_stack'[Len(aic_irq_stack')])
    /\ \A i \in Lines :
          i \in aic_reg_ipr' <=>
             /\ i \in aic_reg_ipr
             /\ ~(AicSelected(i) /\ aic_irq_is_edge_triggered(aic_reg_smr, i))
    /\ aic_reg_cisr' = aic_core_irq_update(aic_reg_ipr', aic_reg_imr, aic_reg_ffsr,
                                           aic_reg_dcr, aic_reg_smr, aic_irq_stack')
    /\ aic_irq' = ("NIRQ" \in aic_reg_cisr')
    /\ aic_fiq' = ("NFIQ" \in aic_reg_cisr')
    /\ UNCHANGED <<aic_reg_imr, aic_reg_smr, aic_reg_svr, aic_reg_spu, aic_reg_dcr,
                   aic_reg_ffsr>>

\* C21 (AIC protect mode): while DCR.PROT is set, reading IVR changes no AIC
\* state (in-service stack, IPR, CISR, nIRQ/nFIQ outputs) and returns the
\* vector an unprotected read would return, and writing IVR performs exactly
\* the state changes of an unprotected IVR read (stack push, edge pending
\* clear, nIRQ recomputation).
C21_ProtectModeMovesAckToWrite ==
    [][/\ (aic_op' = "read_IVR" /\ "PROT" \in aic_reg_dcr) =>
              /\ UNCHANGED <<aic_irq_stack, aic_reg_ipr, aic_reg_cisr, aic_irq, aic_fiq,
                             aic_reg_imr, aic_reg_smr, aic_reg_svr, aic_reg_spu,
                             aic_reg_dcr, aic_reg_ffsr>>
              /\ IsVector(aic_ret')
       /\ (aic_op' = "write_IVR" /\ ~aic_abort' /\ "PROT" \in aic_reg_dcr) => AckEffects
       /\ AckingIvrRead => AckEffects
      ]_vars

\* a protect-mode IVR write has acknowledged edge-triggered line 1 (priority
\* 5): its entry is on the stack and its pending bit is cleared
C21_Witness ==
    /\ aic_op = "write_IVR" /\ "PROT" \in aic_reg_dcr
    /\ Len(aic_irq_stack) = 1
    /\ <<aic_irq_stack[1]>> = aic_irq_stack_push(<<>>, 1, 5)
    /\ SmrPriority(1) = 5 /\ aic_irq_is_edge_triggered(aic_reg_smr, 1)
    /\ 1 \in aic_reg_imr /\ 1 \notin aic_reg_ipr /\ 1 \in aic_line_state
    /\ SmrPriority(2) = 0

\* a protect-mode IVR read has returned the vector of pending line 1 and
\* left it pending and the stack empty
C21_WitnessRead ==
    /\ aic_op = "read_IVR" /\ "PROT" \in aic_reg_dcr
    /\ aic_ret = SvrOf(1) /\ aic_reg_svr[1] = SvrOf(1)
    /\ 1 \in aic_reg_ipr /\ 1 \in aic_reg_imr /\ aic_irq_stack = <<>>

(***************************************************************************)
(* AIC: depth of the in-service stack (specification SpecAicStack)         *)
(***************************************************************************)
\* irq_stack has nine slots: the eight priority levels and the spurious entry
StackSlots == 9

\* this step is an acknowledge: an IVR read with protect mode off or an IVR
\* write with protect mode on (it pushes, or aborts)
Acknowledge ==
    \/ aic_op' = "read_IVR" /\ "PROT" \notin aic_reg_dcr
    \/ aic_op' = "write_IVR" /\ "PROT" \in aic_reg_dcr

\* C22 as stated (AIC stack bound): the in-service stack holds at most 8
\* entries; an IVR acknowledge performed while 8 entries are already on the
\* stack aborts the emulator instead of pushing a ninth entry.
C22_StackHoldsEight ==
    [][/\ Len(aic_irq_stack') <= StackSlots - 1
       /\ (Acknowledge /\ Len(aic_irq_stack) = StackSlots - 1) =>
              aic_abort' /\ aic_irq_stack' = aic_irq_stack
      ]_vars

\* C22 as amended (AIC stack bound): the in-service stack holds at most 9
\* entries (8 and the spurious one); an IVR acknowledge performed while 9
\* entries are already on the stack aborts the emulator instead of pushing a
\* tenth entry, and an acknowledge with fewer entries pushes one.
C22_StackHoldsNine ==
    [][/\ Len(aic_irq_stack') <= StackSlots
       /\ (Acknowledge /\ Len(aic_irq_stack) = StackSlots) =>
              aic_abort' /\ aic_irq_stack' = aic_irq_stack
       /\ (Acknowledge /\ Len(aic_irq_stack) < StackSlots) =>
              ~aic_abort' /\ PushedOne
      ]_vars

\* an acknowledge met nine entries on the stack and aborted
C22_Witness ==
    /\ aic_abort
    /\ aic_op = "read_IVR"
    /\ Len(aic_irq_stack) = StackSlots

(***************************************************************************)
(* AIC stub (specification SpecAicStub)                                    *)
(***************************************************************************)
\* C23 (AIC stub): after every input-line transition and after a device
\* reset, the stub's single output line equals the logical OR of its
\* recorded input levels.
C23_StubOutputIsOr ==
    stub_op # <<"none">> => (stub_irq <=> stub_line_state # {})

(***************************************************************************)
(* Half-duplex PDC (specification SpecHdPdc)                               *)
(***************************************************************************)
\* C24 (half-duplex PDC exclusion): for a half-duplex PDC, after any
\* sequence of PTCR writes that does not abort, PTSR never has RXTEN and
\* TXTEN set at the same time.
C24_HdNeverBothEnabled ==
    ~hdpdc.abort => ~({"RXTEN", "TXTEN"} \subseteq hdpdc.ptsr)

\* a PTCR write asked for the transmitter while the receiver was enabled:
\* the transmitter stays off
C24_Witness ==
    /\ hd_op = <<"PTCR", {"TXTEN"}>>
    /\ ~hdpdc.abort
    /\ hdpdc.ptsr = {"RXTEN"}

(***************************************************************************)
(* PIO (specification SpecPio)                                             *)
(***************************************************************************)
\* C25 (PIO ODSR masking): a write of value v to ODSR sets every ODSR bit
\* whose OWSR bit is 1 to the corresponding bit of v and leaves every ODSR
\* bit whose OWSR bit is 0 unchanged.
C25_OdsrMaskedByOwsr ==
    [][pio_op'[1] = "ODSR" =>
          \A pin \in Pins :
             pin \in pio'.odsr <=>
                IF pin \in pio.owsr THEN pin \in pio_op'[2] ELSE pin \in pio.odsr
      ]_vars

(***************************************************************************)
(* PIT (specification SpecPit)                                             *)
(***************************************************************************)
\* the first period since the timer was started has just elapsed:
\* (PIV + 1) * 16 master-clock ticks
FirstPeriodElapsed ==
    /\ pit.mr.piten /\ pit.mr.pitien
    /\ pit_elapsed = (pit.mr.piv + 1) * PitPrescale

\* C26 (PIT tick and PIVR read): with MR.PIV = p, PITEN = 1 and PITIEN = 1,
\* after (p + 1) * 16 master-clock ticks PITS is set, PICNT is 1 and the PIT
\* interrupt line is asserted; the next PIVR read returns PICNT in bits
\* 31..20 and CPIV in bits 19..0 (here PICNT = 1, CPIV = 0), resets PICNT to
\* 0, clears PITS and de-asserts the interrupt line.
C26_PitTickAndPivrRead ==
    [][/\ FirstPeriodElapsed' => (pit'.pits /\ pit'.picnt = 1 /\ pit'.irq)
       /\ (pit_op' = "read_PIVR" /\ pit.mr.piten) =>
              /\ pit_ret' \div CpivWidth = pit.picnt
              /\ pit_ret' % CpivWidth = pit_since
              /\ FirstPeriodElapsed => pit_ret' = CpivWidth
              /\ pit'.picnt = 0 /\ ~pit'.pits /\ ~pit'.irq
      ]_vars

\* PIV = 2: after 48 master-clock ticks the PIVR read returned PICNT = 1 and
\* CPIV = 0 and cleared PICNT, PITS and the interrupt line
C26_Witness ==
    /\ pit_op = "read_PIVR"
    /\ pit.mr = [piv |-> 2, piten |-> TRUE, pitien |-> TRUE]
    /\ pit_ret = CpivWidth
    /\ pit.t_count = 3 /\ pit.t_presc = 0
    /\ pit.picnt = 0 /\ ~pit.pits /\ ~pit.irq

(***************************************************************************)
(* DBGU (specification SpecDbgu)                                           *)
(***************************************************************************)
\* this step is the arrival of a character while RXRDY is set
ArrivesWhileReady == dbgu_op' = "arrive" /\ "RXRDY" \in dbgu.sr

\* C27 as stated (DBGU overrun): if a character arrives from the host while
\* DBGU RXRDY is still set (RHR not yet read), OVRE becomes set in DBGU_SR.
C27_OverrunSetsOvre ==
    [][ArrivesWhileReady => "OVRE" \in dbgu'.sr]_vars

\* C27 as amended (DBGU overrun): if a character arrives from the host while
\* DBGU RXRDY is still set (RHR not yet read), it is held back and RHR, RXRDY
\* and the rest of the device are left as they are; it is loaded into RHR,
\* with RXRDY set, only once RXRDY is clear, and OVRE is never set in DBGU_SR.
C27_OverrunHeldBack ==
    [][/\ "OVRE" \notin dbgu'.sr
       /\ ArrivesWhileReady =>
             (dbgu' = dbgu /\ dbgu_host' = Append(dbgu_host, dbgu_ret'))
       /\ (dbgu_op' \in {"arrive", "poll"} /\ dbgu'.rhr # dbgu.rhr) =>
             /\ "RXRDY" \notin dbgu.sr /\ "RXRDY" \in dbgu'.sr
             /\ dbgu'.rhr = Head(IF dbgu_op' = "poll" THEN dbgu_host
                                 ELSE Append(dbgu_host, dbgu_ret'))
      ]_vars

\* character 66 arrived while 65 was still in RHR and is held back
C27_Witness ==
    /\ dbgu_op = "arrive" /\ dbgu_ret = 66
    /\ "RXRDY" \in dbgu.sr /\ dbgu.rhr = 65
    /\ dbgu_host = <<66>>

(***************************************************************************)
(* MCI (specification SpecMci)                                             *)
(***************************************************************************)
\* this step read bytes from the card and left none to read: the last byte
\* of a read transfer has been delivered
ReadCompletes == mci'.sd_bytes > 0 /\ mci'.rd_bytes_left = 0

C28_WitnessRdr ==
    /\ mci.sd_bytes = 4 /\ mci.rd_bytes_left = 0 /\ "PDCMODE" \notin mci.mr
    /\ "BLKE" \notin mci.sr

(***************************************************************************)
(* TC (specification SpecTc)                                               *)
(***************************************************************************)
\* this step is a tick in waveform mode that makes the counter equal to RB
TickReachesRb == tc_op' = "tick" /\ "WAVE" \in tc.cmr /\ tc'.cv = tc.rb

\* C29 (TC compare status): in waveform mode, when a tick makes the counter
\* value equal to RB, CPBS (and not CPAS, unless RA also matches) is set in the
\* channel status register, and it stays set until SR is read.
C29_RbMatchSetsCpbs ==
    [][/\ TickReachesRb =>
             /\ "CPBS" \in tc'.sr
             /\ "CPAS" \in tc'.sr => ("CPAS" \in tc.sr \/ tc'.cv = tc.ra)
       /\ ("CPBS" \in tc.sr /\ tc_op' \notin {"read_SR", "reset"}) => "CPBS" \in tc'.sr
      ]_vars

(***************************************************************************)
(* Device reset of the IOX peripherals (specification SpecTwiTx)           *)
(***************************************************************************)
\* C30 (reset clears buffers): after a device reset of a USART, SPI or TWI,
\* its receive and send buffers are empty and no pending transfer state
\* survives, while the attached IOX client stays connected.  Stated for the
\* TWI: its buffers are empty and its transmit timer is stopped after the
\* reset, and the client is as before.
C30_ResetClearsBuffers ==
    [][twi_op' = "reset" =>
          /\ twi'.rcvbuf = <<>> /\ twi'.sendbuf = <<>>
          /\ twi'.timer = 0
          /\ twi'.client = twi.client]_vars

\* C40 (DBGU interrupt mask): writing a value v to DBGU IER sets exactly the
\* IMR bits that are 1 in v and leaves every other IMR bit unchanged, and
\* writing v to IDR clears exactly the IMR bits that are 1 in v.
C40_DbguMaskWrites ==
    [][/\ dbgu_op' = "write_IER" => dbgu'.imr = dbgu.imr \cup dbgu_ret'
       /\ dbgu_op' = "write_IDR" => dbgu'.imr = dbgu.imr \ dbgu_ret'
      ]_vars

(***************************************************************************)
(* AIC in-service stack (specification SpecAic)                            *)
(***************************************************************************)
\* this step is an IVR access that acknowledges: a read with protect mode
\* off, a write with protect mode on
AckingIvrAccess ==
    \/ AckingIvrRead
    \/ aic_op' = "write_IVR" /\ ~aic_abort' /\ "PROT" \in aic_reg_dcr

\* C35 (AIC in-service register): while an interrupt acknowledged by an IVR
\* access is the top of the in-service stack, reading ISR returns the source
\* number of that interrupt, and the stack entry records its priority: the
\* acknowledge pushes the line and its priority, and the ISR read returns
\* the line of the top entry.
C35_IsrReturnsSource ==
    [][/\ (AckingIvrAccess /\ AicEligible # {}) =>
             \E i \in AicEligible :
                /\ AicSelected(i)
                /\ aic_irq_stack'[Len(aic_irq_stack')] = [irq |-> i, pri |-> SmrPriority(i)]
       /\ (aic_op' = "read_ISR" /\ ~aic_abort') =>
             aic_ret' = aic_irq_stack[Len(aic_irq_stack)].irq
      ]_vars

\* C36 (AIC stack frame): the in-service stack depth changes only through an
\* acknowledging IVR access (plus one) and an EOICR write (minus one, no
\* effect when empty); a write to any other register - in particular ISCR,
\* which only sets the selected edge-triggered pending bits - leaves the
\* stack unchanged.  (A device reset is no register write.)
C36_StackFrame ==
    [][/\ AckingIvrAccess => PushedOne
       /\ aic_op' = "write_EOICR" => aic_irq_stack' = aic_irq_stack_pop(aic_irq_stack)
       /\ (~AckingIvrAccess /\ aic_op' \notin {"write_EOICR", "reset"}) =>
             aic_irq_stack' = aic_irq_stack
       /\ aic_op' = "write_ISCR" =>
             /\ aic_reg_ipr \subseteq aic_reg_ipr'
             /\ \A i \in aic_reg_ipr' \ aic_reg_ipr :
                   aic_irq_is_edge_triggered(aic_reg_smr, i)
      ]_vars

\* C37 (AIC preemption): while an interrupt of priority p is in service (top
\* of the stack), nIRQ is asserted only if some pending, enabled,
\* non-fast-forced line has priority strictly greater than p.  Stated for the
\* state an acknowledge leaves: line i of priority p has just been put on top
\* of the stack.
C37_PreemptionNeedsHigherPriority ==
    [][(AckingIvrAccess /\ AicEligible # {}) =>
          \A i \in AicEligible :
             (AicSelected(i) /\ aic_irq') =>
                \E j \in AicEligible' : SmrPriority(j) > SmrPriority(i)
      ]_vars

(***************************************************************************)
(* USART receiver (specification SpecUsartRx)                              *)
(***************************************************************************)
\* C32 (USART RXRDY interrupt): the USART interrupt line is asserted whenever
\* a status bit that a CSR read would report as set is enabled in IMR; in
\* particular, moving a received byte into RHR while the receiver is enabled
\* and IMR.RXRDY is set asserts the line, and it is de-asserted again once
\* RHR has been read and no other enabled status bit is set.
C32_IrqFollowsEnabledStatus ==
    [][/\ (CsrValue(usart') \cap usart'.imr # {}) => usart'.irq
       /\ (us_op' = "read_RHR" /\ CsrValue(usart') \cap usart'.imr = {}) => ~usart'.irq
      ]_vars

\* C38 (USART RCR never underflows): a USART PDC receive step stores a byte
\* to memory and decrements RCR only while RCR > 0, so RCR never wraps around
\* below zero: RCR grows only by a write to RCR or by taking over RNCR.
C38_RcrNeverUnderflows ==
    [][usart'.rcr > usart.rcr =>
          \/ us_op' = "RCR"
          \/ usart.rncr # 0 /\ usart'.rcr <= usart.rncr
      ]_vars


\* ---- USART receive PDC (specification SpecUsartPdc) ----
\* the receive channel is armed: receiver and channel enabled, room in the
\* current buffer
RxDmaArmed ==
    /\ usart.rx_enabled
    /\ usart.rx_dma_enabled
    /\ usart.rcr > 0

\* the stores of n bytes numbered from first: the first cur of them go to
\* p .., the rest to q ..
TwoBufferStores(n, first, cur, p, q) ==
    [i \in 1 .. n |-> IF i <= cur THEN <<p + i - 1, first + i - 1>>
                      ELSE <<q + i - cur - 1, first + i - 1>>]

\* the receive registers and flags after n bytes went to an armed channel
\* with room for them
RollOverAfter(n) ==
    IF n < usart.rcr
    THEN /\ usart'.rcr = usart.rcr - n /\ usart'.rpr = usart.rpr + n
         /\ usart'.rncr = usart.rncr /\ usart'.rnpr = usart.rnpr
         /\ usart'.csr \cap {"ENDRX", "RXBUFF"} = usart.csr \cap {"ENDRX", "RXBUFF"}
    ELSE IF usart.rncr > 0
    THEN /\ usart'.rcr = usart.rncr - (n - usart.rcr)
         /\ usart'.rpr = usart.rnpr + (n - usart.rcr)
         /\ usart'.rncr = 0
         /\ "ENDRX" \in usart'.csr
         /\ "RXBUFF" \in usart'.csr <=> usart'.rcr = 0
    ELSE /\ usart'.rcr = 0 /\ usart'.rncr = 0
         /\ {"ENDRX", "RXBUFF"} \subseteq usart'.csr

\* C34 (PDC current/next roll-over on USART receive): with the receive DMA
\* armed with RCR = a > 0 at RPR = P and RNCR = b at RNPR = Q, a frame of
\* n <= a + b injected bytes is stored whole and in arrival order, its first
\* a bytes at P .. and the others at Q ..; nothing is left in the receiver,
\* so the same holds for the frames that follow.  When RCR reaches 0 the
\* current pair takes over the next pair's pointer and count, RNCR becomes 0
\* and ENDRX is set; RXBUFF is set only once both counts are 0.
C34_RollOver ==
    [][(RxDmaArmed /\ cli_next' > cli_next
          /\ cli_next' - cli_next <= usart.rcr + usart.rncr) =>
          /\ us_stored' = TwoBufferStores(cli_next' - cli_next, cli_next, usart.rcr,
                                          usart.rpr, usart.rnpr)
          /\ usart'.rcvbuf = <<>> /\ "RXRDY" \notin usart'.csr
          /\ RollOverAfter(cli_next' - cli_next)
      ]_vars

\* a frame of two bytes went to two buffers of one byte each
C34_Witness ==
    /\ us_stored = <<<<16, 2>>, <<32, 3>>>>
    /\ usart.rcr = 0 /\ usart.rncr = 0
    /\ {"ENDRX", "RXBUFF"} \subseteq usart.csr
    /\ us_op = "other"


\* ---- IOX reconnect (specification SpecIox) ----
\* the first frame the attached client wrote has arrived whole and the
\* server has read none of its bytes yet
FirstFrameArrived ==
    /\ srv_client # NULL
    /\ iox_frames # <<>>
    /\ iox_dispatched = <<>>
    /\ Len(iox_sock) >= Len(FrameBytes(iox_frames[1]))
    /\ SubSeq(iox_sock, 1, Len(FrameBytes(iox_frames[1]))) = FrameBytes(iox_frames[1])

\* the first frame the attached client wrote has arrived whole, the server
\* has read none of its bytes yet, and client_receive runs
FirstFrameRead ==
    /\ FirstFrameArrived
    /\ srv_client' = srv_client
    /\ Len(iox_sock') < Len(iox_sock)

\* C39 (IOX reconnect): when a client disconnects in the middle of a frame,
\* the partially received bytes are discarded, so the first frame sent by
\* the next client is parsed starting at that client's first byte and
\* dispatched with exactly its own header and payload.
C39_ReconnectStartsClean ==
    [][/\ (srv_client # NULL /\ srv_client' = NULL) => srv_buffer_used' = 0
       /\ FirstFrameRead =>
              (iox_dispatched' # <<>> /\ iox_dispatched'[1] = iox_frames[1])
      ]_vars


\* ---- PDC flags and the interrupt line (specification SpecUsart) ----
PdcFlagBits == {"ENDRX", "RXBUFF", "ENDTX", "TXBUFE"}

\* the step is a PDC register write that starts a DMA transfer
StartsDma ==
    /\ us_op' \in {"RCR", "TCR"}
    /\ at91_pdc_action(usart, us_op', us_ret') \in {"START_RX", "START_TX"}

\* the PDC flags the update-IRQ callback finds when at91_pdc_generic_set_register
\* calls it for the register update, before it starts the transfer
FlagsAtRegisterUpdate ==
    PdcUpdateFlags(at91_pdc_set_register(UsartState, us_op', us_ret'),
                   us_op', us_ret').csr \cap PdcFlagBits

\* C31 (flags before IRQ): whenever a PDC register write starts a DMA
\* transfer, every invocation of the peripheral's update-IRQ callback caused
\* by that write observes ENDRX/RXBUFF/ENDTX/TXBUFE already at their
\* post-transfer values.
C31_EveryCallbackSeesPostTransfer ==
    [][StartsDma => FlagsAtRegisterUpdate = usart'.csr \cap PdcFlagBits]_vars

\* C31, amended: the invocations of the callback that follow the transfer
\* observe the flags at their post-transfer values, so that the line the
\* write leaves is high when an enabled PDC flag is set after the transfer;
\* the invocation for the register update itself, before the transfer,
\* observes ENDTX/TXBUFE (ENDRX/RXBUFF) cleared by the write of a count that
\* is not 0.
C31_LastCallbackSeesPostTransfer ==
    [][StartsDma =>
          /\ (usart'.csr \cap PdcFlagBits \cap usart'.imr # {}) => usart'.irq
          /\ us_op' = "TCR" => FlagsAtRegisterUpdate \cap {"ENDTX", "TXBUFE"} = {}
          /\ us_op' = "RCR" => FlagsAtRegisterUpdate \cap {"ENDRX", "RXBUFF"} = {}
      ]_vars

\* a TCR write has started a transfer with the ENDTX interrupt enabled
C31_Witness ==
    /\ us_op = "TCR" /\ us_ret > 0
    /\ usart.tcr = 0
    /\ "ENDTX" \in usart.csr /\ "ENDTX" \in usart.imr
    /\ usart.irq


\* ---- TWI output order (specification SpecTwiPdc) ----
\* the bytes of the DATA_OUT frames among sent, in the order of the frames
DataOutBytes(sent) == Payloads(SelectSeq(sent, IsDataOut))

IsPrefix(a, b) == Len(a) <= Len(b) /\ SubSeq(b, 1, Len(a)) = a

\* C33 (TWI output order): bytes handed to the TWI for transmission appear
\* on the IOX socket in the order firmware handed them over: a step that
\* writes DATA_OUT frames to the socket writes the bytes that were written
\* to THR before it and are still waiting for the bundling timer first, so
\* that the DATA_OUT frame carrying a byte X written to THR precedes the
\* DATA_OUT frames of a PDC transmit started before the timer has expired.
C33_OutputInHandoverOrder ==
    [][DataOutBytes(twi_sent') # <<>> =>
           IsPrefix(twi.sendbuf, DataOutBytes(twi_sent'))]_vars

====
